---- MODULE Spec2Model ----
(***************************************************************************)
(* Timesheet and expense request handlers of the workforce-management      *)
(* backend (backend/routes/timesheets.js, backend/routes/expenses.js,      *)
(* backend/models/DailyTimesheet.js, backend/middleware/roleCheck.js).     *)
(*                                                                         *)
(* One action is one HTTP request handled to completion against the        *)
(* document store.  Documents are records keyed by their _id; a populated  *)
(* reference to an Employee that no longer exists is null.  Hours are kept *)
(* in minutes (hours * 60) so that the division by 60 stays exact.         *)
(***************************************************************************)
EXTENDS Integers, FiniteSets, Sequences, TLC

\* ---------------------------------------------------------------- bounds
\* documents created per run of the lifecycle, hours and expense specifications
MaxTimesheets == 1
MaxExpenses == 1
\* documents created per run of the uniqueness specification
MaxSameDay == 2
MaxMonthSheets == 2
MaxSummaries == 2
MaxEmployees == 3
MaxUsers == 5
MaxTokens == 1

\* ------------------------------------------------------------ principals
\* req.user as supplied to the handlers: {id, role, linkedEmployeeId}.
Principals == {"admin", "manager", "emp1", "emp2"}
role == [admin |-> "admin", manager |-> "manager",
         emp1 |-> "employee", emp2 |-> "employee"]
linkedEmployeeId == [admin |-> 0, manager |-> 0, emp1 |-> 1, emp2 |-> 2]

EmployeeIds == {1, 2}
Dates == {1, 2}

\* roleCheck(...allowedRoles): 0 stands for next(), otherwise the status sent.
roleCheck(allowedRoles, p) == IF role[p] \in allowedRoles THEN 0 ELSE 403
adminOnly(p) == roleCheck({"admin"}, p)
\* a role check that lets every role through
adminOrManagerOrEmployee(p) == roleCheck({"admin", "manager", "employee"}, p)
adminOrManager(p) == roleCheck({"admin", "manager"}, p)
allRoles(p) == roleCheck({"admin", "manager", "employee"}, p)

\* ------------------------------------------------------- timesheet model
TimesheetStatuses == {"draft", "submitted", "approved", "rejected"}
regularHours == 8
MaxBreakTime == 480
MaxTotalHours == 24

\* /^([0-1]?[0-9]|2[0-3]):[0-5][0-9]$/ on a time given as hours and minutes
validTime(t) == t.h \in 0..23 /\ t.m \in 0..59

parseTime(t) == t.h * 60 + t.m

unfloored(x) == x

\* Math.max(0, x)
max0(x) == IF x > 0 THEN x ELSE 0

\* calculateHours: total and overtime, in minutes
calculateHours(startTime, endTime, breakTime) ==
  LET d == parseTime(endTime) - parseTime(startTime)
      totalMinutes == (IF d < 0 THEN d + 24 * 60 ELSE d) - breakTime
      total == max0(totalMinutes)
  IN  [totalHoursWorked |-> total, otHours |-> max0(total - regularHours * 60)]

\* schema validators of DailyTimesheet on a whole document
timesheetSchemaValid(doc) ==
  /\ validTime(doc.startTime)
  /\ validTime(doc.endTime)
  /\ doc.breakTime >= 0 /\ doc.breakTime <= MaxBreakTime
  /\ doc.totalHoursWorked >= 0 /\ doc.totalHoursWorked <= MaxTotalHours * 60
  /\ doc.otHours >= 0
  /\ doc.status \in TimesheetStatuses

\* $set of the schema paths present in the request body
applyBody(doc, body) ==
  [f \in DOMAIN doc |-> IF f \in DOMAIN body THEN body[f] ELSE doc[f]]

VARIABLES employees, timesheets, nextTimesheetId, expenses, nextExpenseId, resp,
          everSubmitted, nextEmployeeId, users, summaries, nextSummaryId,
          inflight, nextUserId, resetTokens, nextTokenId

vars == <<employees, timesheets, nextTimesheetId, expenses, nextExpenseId, resp,
          everSubmitted, nextEmployeeId, users, summaries, nextSummaryId,
          inflight, nextUserId, resetTokens, nextTokenId>>

\* the PasswordResetToken collection
tokens == <<resetTokens, nextTokenId>>

\* the User accounts, their reset tokens and the id counter of the Employee
\* collection
accounts == <<nextEmployeeId, users, nextUserId, tokens>>

\* the MonthlySummary collection
reports == <<summaries, nextSummaryId>>

store == <<employees, timesheets, nextTimesheetId, expenses, nextExpenseId>>

\* History variable of the expense-history specification: the expenses that
\* have held status submitted at some point.  No handler reads or writes it.
noteSubmitted ==
  /\ everSubmitted' = everSubmitted \cup
                     {i \in DOMAIN expenses' : expenses'[i].status = "submitted"}
  /\ UNCHANGED <<accounts, reports, inflight>>

TimesheetIds == 1..MaxSameDay
ExpenseIds == 1..MaxExpenses

reply(op, p, id, code, data) ==
  resp' = [op |-> op, by |-> p, id |-> id, code |-> code, data |-> data]

EmployeeStatuses == {"active", "inactive", "terminated"}

\* pay rates per hour, as (payRate, otRate, vacationPayRate)
PayRates == <<[payRate |-> 10, otRate |-> 15, vacationPayRate |-> 20],
              [payRate |-> 12, otRate |-> 18, vacationPayRate |-> 24]>>

\* new Employee({employeeId, name, ..., payRate, otRate, vacationPayRate});
\* employeeId is the printed employee code of the document with _id e
newEmployee(e, rates) ==
  [employeeId |-> e, name |-> <<"name", e>>, position |-> "staff",
   status |-> "active", payRate |-> rates.payRate,
   otRate |-> rates.otRate, vacationPayRate |-> rates.vacationPayRate]

\* the pre-save hook of User: the stored password is the hash of the one given
hashed(password) == <<"hash", password>>

\* new User({username, email, password, role, linkedEmployeeId, isActive});
\* linkedEmployeeId 0 stands for a field that is not set
newUser(email, password, userRole, linked) ==
  [username |-> email, email |-> email, password |-> hashed(password),
   role |-> userRole, linkedEmployeeId |-> linked, isActive |-> TRUE]

\* the accounts behind the principals, in the order they were created
PrincipalOrder == <<"admin", "manager", "emp1", "emp2">>

Init ==
  /\ employees = [e \in EmployeeIds |-> newEmployee(e, PayRates[1])]
  /\ timesheets = [i \in {} |-> 0]
  /\ nextTimesheetId = 1
  /\ expenses = [i \in {} |-> 0]
  /\ nextExpenseId = 1
  /\ resp = [op |-> "none", by |-> "admin", id |-> 0, code |-> 0, data |-> {}]
  /\ everSubmitted = {}
  /\ nextEmployeeId = 3
  /\ users = [u \in DOMAIN PrincipalOrder |->
                newUser(PrincipalOrder[u], "secret", role[PrincipalOrder[u]],
                        linkedEmployeeId[PrincipalOrder[u]])]
  /\ nextUserId = Len(PrincipalOrder) + 1
  /\ resetTokens = [t \in {} |-> 0]
  /\ nextTokenId = 1
  /\ summaries = [i \in {} |-> 0]
  /\ nextSummaryId = 1
  /\ inflight = [r \in {} |-> 0]

\* timesheet.calculateHours() on a document with the given times and break;
\* the response carries the inputs with the two derived fields
CalculateHours(startTime, endTime, breakTime) ==
  /\ UNCHANGED store
  /\ LET hours == calculateHours(startTime, endTime, breakTime)
     IN  reply("calculateHours", "admin", 0, 0,
               {[startTime |-> startTime, endTime |-> endTime,
                 breakTime |-> breakTime,
                 totalHoursWorked |-> hours.totalHoursWorked,
                 otHours |-> hours.otHours]})

\* ----------------------------------------------------- employee routes
\* DELETE /api/employees/:id (admin only); referencing documents are kept
DeleteEmployee(p, e) ==
  /\ UNCHANGED <<timesheets, nextTimesheetId, expenses, nextExpenseId>>
  /\ IF adminOnly(p) # 0
       THEN /\ reply("deleteEmployee", p, e, adminOnly(p), {})
            /\ UNCHANGED employees
     ELSE IF e \notin DOMAIN employees
       THEN /\ reply("deleteEmployee", p, e, 404, {})
            /\ UNCHANGED employees
     ELSE /\ employees' = [i \in DOMAIN employees \ {e} |-> employees[i]]
          /\ reply("deleteEmployee", p, e, 200, {})

\* schema validators of Employee on a whole document
employeeSchemaValid(doc) ==
  /\ doc.payRate >= 0 /\ doc.otRate >= 0 /\ doc.vacationPayRate >= 0
  /\ doc.status \in EmployeeStatuses

\* Employee.findOne({employeeId}): the documents that carry the code
findEmployeeCode(code) == {e \in DOMAIN employees : employees[e].employeeId = code}

\* the express-validator chain of POST /api/employees
\* (employee code 0 stands for an empty employeeId)
wellFormedEmployeeBody(body) == body.employeeId # 0 /\ body.email # ""

\* User.findOne({$or: [{username}, {email}]}): the accounts that match
findUserNamed(name) ==
  {u \in DOMAIN users : users[u].username = name \/ users[u].email = name}

\* POST /api/employees: the employee is saved, then its User account; a taken
\* email is answered 400 after the employee was stored
CreateEmployee(p, body) ==
  /\ UNCHANGED <<timesheets, nextTimesheetId, expenses, nextExpenseId, tokens>>
  /\ LET id == nextEmployeeId
         doc == [newEmployee(id, body.rates) EXCEPT !.employeeId = body.employeeId]
         refuse(code) == /\ reply("createEmployee", p, 0, code, {})
                         /\ UNCHANGED <<employees, nextEmployeeId, users,
                                        nextUserId>>
     IN  IF adminOrManager(p) # 0 THEN refuse(adminOrManager(p))
         ELSE IF ~wellFormedEmployeeBody(body) THEN refuse(400)
         ELSE IF findEmployeeCode(body.employeeId) # {} THEN refuse(400)
         ELSE IF ~employeeSchemaValid(doc) THEN refuse(500)
         ELSE /\ employees' = (id :> doc) @@ employees
              /\ nextEmployeeId' = nextEmployeeId + 1
              /\ IF findUserNamed(body.email) # {}
                   THEN /\ UNCHANGED <<users, nextUserId>>
                        /\ reply("createEmployee", p, id, 400, {})
                   ELSE /\ users' = (nextUserId :>
                                       newUser(body.email, body.password,
                                               "employee", id)) @@ users
                        /\ nextUserId' = nextUserId + 1
                        /\ reply("createEmployee", p, id, 201, {doc})

\* POST /api/employees of the router without login creation (admin only)
CreateEmployeeOnly(p, body) ==
  /\ UNCHANGED <<timesheets, nextTimesheetId, expenses, nextExpenseId, users,
                 nextUserId, tokens>>
  /\ LET id == nextEmployeeId
         doc == [newEmployee(id, body.rates) EXCEPT !.employeeId = body.employeeId]
         refuse(code) == /\ reply("createEmployeeOnly", p, 0, code, {})
                         /\ UNCHANGED <<employees, nextEmployeeId>>
     IN  IF adminOnly(p) # 0 THEN refuse(adminOnly(p))
         ELSE IF body.employeeId = 0 THEN refuse(400)
         ELSE IF findEmployeeCode(body.employeeId) # {} THEN refuse(400)
         ELSE IF ~employeeSchemaValid(doc) THEN refuse(500)
         ELSE /\ employees' = (id :> doc) @@ employees
              /\ nextEmployeeId' = nextEmployeeId + 1
              /\ reply("createEmployeeOnly", p, id, 201, {doc})

\* PUT /api/employees/:id (admin only)
UpdateEmployee(p, e, body) ==
  /\ UNCHANGED <<timesheets, nextTimesheetId, expenses, nextExpenseId>>
  /\ LET refuse(code) == /\ reply("updateEmployee", p, e, code, {})
                         /\ UNCHANGED employees
     IN  IF adminOnly(p) # 0 THEN refuse(adminOnly(p))
         ELSE IF e \notin DOMAIN employees THEN refuse(404)
         ELSE IF /\ "employeeId" \in DOMAIN body
                 /\ body.employeeId # employees[e].employeeId
                 /\ findEmployeeCode(body.employeeId) # {}
           THEN refuse(400)
         ELSE LET updated == applyBody(employees[e], body)
              IN  IF ~employeeSchemaValid(updated) THEN refuse(500)
                  ELSE /\ employees' = [employees EXCEPT ![e] = updated]
                       /\ reply("updateEmployee", p, e, 200, {updated})

\* PUT /api/employees/:id/deactivate
DeactivateEmployee(p, e) ==
  /\ UNCHANGED <<timesheets, nextTimesheetId, expenses, nextExpenseId>>
  /\ LET refuse(code) == /\ reply("deactivateEmployee", p, e, code, {})
                         /\ UNCHANGED employees
     IN  IF adminOrManager(p) # 0 THEN refuse(adminOrManager(p))
         ELSE IF e \notin DOMAIN employees THEN refuse(404)
         ELSE IF employees[e].status = "inactive" THEN refuse(400)
         ELSE /\ employees' = [employees EXCEPT ![e].status = "inactive"]
              /\ reply("deactivateEmployee", p, e, 200, {})

\* PUT /api/employees/:id/activate
ActivateEmployee(p, e) ==
  /\ UNCHANGED <<timesheets, nextTimesheetId, expenses, nextExpenseId>>
  /\ LET refuse(code) == /\ reply("activateEmployee", p, e, code, {})
                         /\ UNCHANGED employees
     IN  IF adminOrManager(p) # 0 THEN refuse(adminOrManager(p))
         ELSE IF e \notin DOMAIN employees THEN refuse(404)
         ELSE IF employees[e].status = "active" THEN refuse(400)
         ELSE /\ employees' = [employees EXCEPT ![e].status = "active"]
              /\ reply("activateEmployee", p, e, 200, {})

\* GET /api/employees/:id
GetEmployee(p, e) ==
  /\ UNCHANGED store
  /\ IF adminOrManager(p) # 0
       THEN reply("getEmployee", p, e, adminOrManager(p), {})
     ELSE IF e \notin DOMAIN employees THEN reply("getEmployee", p, e, 404, {})
     ELSE reply("getEmployee", p, e, 200, {employees[e]})

\* GET /api/employees
ListEmployees(p) ==
  /\ UNCHANGED store
  /\ IF adminOrManager(p) # 0
       THEN reply("listEmployees", p, 0, adminOrManager(p), {})
     ELSE reply("listEmployees", p, 0, 200, {employees[e] : e \in DOMAIN employees})

\* ------------------------------------------------ user management routes
UserRoles == {"admin", "manager", "employee"}

\* roleCheck(...allowedRoles) on the account a of req.user; a request without
\* an account has no req.user
roleCheckUser(allowedRoles, a) ==
  IF a \notin DOMAIN users THEN 401
  ELSE IF users[a].role \in allowedRoles THEN 0
  ELSE 403

neverHalts(code) == FALSE

\* roleCheck returns after it has sent 401 or 403 and calls next() only
\* otherwise: the chain stops at a status that is not 0
halts(code) == code # 0

\* the status the client gets: the first response sent
answered(gate, code) == IF gate # 0 THEN gate ELSE code

\* the express-validator chain of POST /api/user-management/users; an empty
\* string stands for a value the chain refuses
wellFormedUserBody(body) ==
  /\ body.username # "" /\ body.email # "" /\ body.password # ""
  /\ body.role \in UserRoles

\* the chain of PUT /api/user-management/users/:id, every field optional
wellFormedUserUpdate(body) ==
  /\ "username" \in DOMAIN body => body.username # ""
  /\ "email" \in DOMAIN body => body.email # ""
  /\ "password" \in DOMAIN body => body.password # ""
  /\ "role" \in DOMAIN body => body.role \in UserRoles
  /\ "linkedEmployeeId" \in DOMAIN body => body.linkedEmployeeId # 0

\* POST /api/user-management/users (admin only); linkedEmployeeId 0 stands
\* for a body without the field
CreateUser(a, body) ==
  /\ UNCHANGED <<store, nextEmployeeId, tokens>>
  /\ LET refuse(code) == /\ reply("createUser", a, 0, code, {})
                         /\ UNCHANGED <<users, nextUserId>>
         doc == newUser(body.email, body.password, body.role,
                        IF body.role = "employee" THEN body.linkedEmployeeId
                        ELSE 0)
     IN  IF halts(roleCheckUser({"admin"}, a)) THEN refuse(roleCheckUser({"admin"}, a))
         ELSE IF ~wellFormedUserBody(body) THEN refuse(400)
         ELSE IF \E u \in DOMAIN users : \/ users[u].email = body.email
                                         \/ users[u].username = body.username
           THEN refuse(400)
         ELSE IF body.role = "employee" /\ body.linkedEmployeeId = 0
           THEN refuse(400)
         ELSE /\ users' = (nextUserId :> [doc EXCEPT !.username = body.username])
                            @@ users
              /\ nextUserId' = nextUserId + 1
              /\ reply("createUser", a, nextUserId, answered(roleCheckUser({"admin"}, a), 201), {})

\* PUT /api/user-management/users/:id (admin only): every key of the body is
\* assigned to the document, which is then saved
UpdateUser(a, u, body) ==
  /\ UNCHANGED <<store, nextEmployeeId, nextUserId, tokens>>
  /\ LET refuse(code) == /\ reply("updateUser", a, u, code, {})
                         /\ UNCHANGED users
     IN  IF halts(roleCheckUser({"admin"}, a)) THEN refuse(roleCheckUser({"admin"}, a))
         ELSE IF ~wellFormedUserUpdate(body) THEN refuse(400)
         ELSE IF u \notin DOMAIN users THEN refuse(404)
         ELSE IF /\ "email" \in DOMAIN body
                 /\ body.email # users[u].email
                 /\ \E v \in DOMAIN users : users[v].email = body.email
           THEN refuse(400)
         ELSE IF /\ "username" \in DOMAIN body
                 /\ body.username # users[u].username
                 /\ \E v \in DOMAIN users : users[v].username = body.username
           THEN refuse(400)
         ELSE IF /\ "role" \in DOMAIN body
                 /\ body.role = "employee"
                 /\ "linkedEmployeeId" \notin DOMAIN body
                 /\ users[u].linkedEmployeeId = 0
           THEN refuse(400)
         ELSE LET assigned == applyBody(users[u], body)
                  saved == IF "password" \in DOMAIN body
                             THEN [assigned EXCEPT !.password = hashed(body.password)]
                             ELSE assigned
              IN  /\ users' = [users EXCEPT ![u] = saved]
                  /\ reply("updateUser", a, u, answered(roleCheckUser({"admin"}, a), 200), {})

lastAdminUnguarded(a, u) == FALSE

\* the two refusals of DELETE /api/user-management/users/:id: the caller's own
\* account, and an admin when User.countDocuments({role: 'admin'}) <= 1
undeletable(a, u) ==
  \/ a = u
  \/ /\ users[u].role = "admin"
     /\ Cardinality({v \in DOMAIN users : users[v].role = "admin"}) <= 1

\* DELETE /api/user-management/users/:id (admin only)
DeleteUser(a, u) ==
  /\ UNCHANGED <<store, nextEmployeeId, nextUserId, tokens>>
  /\ LET refuse(code) == /\ reply("deleteUser", a, u, code, {})
                         /\ UNCHANGED users
     IN  IF halts(roleCheckUser({"admin"}, a)) THEN refuse(roleCheckUser({"admin"}, a))
         ELSE IF u \notin DOMAIN users THEN refuse(404)
         ELSE IF undeletable(a, u) THEN refuse(400)
         ELSE /\ users' = [v \in DOMAIN users \ {u} |-> users[v]]
              /\ reply("deleteUser", a, u, answered(roleCheckUser({"admin"}, a), 200), {})

\* PUT /api/user-management/users/:id/toggle-status (admin only)
ToggleUserStatus(a, u) ==
  /\ UNCHANGED <<store, nextEmployeeId, nextUserId, tokens>>
  /\ LET refuse(code) == /\ reply("toggleUserStatus", a, u, code, {})
                         /\ UNCHANGED users
     IN  IF halts(roleCheckUser({"admin"}, a)) THEN refuse(roleCheckUser({"admin"}, a))
         ELSE IF u \notin DOMAIN users THEN refuse(404)
         ELSE IF a = u THEN refuse(400)
         ELSE /\ users' = [users EXCEPT ![u].isActive = ~users[u].isActive]
              /\ reply("toggleUserStatus", a, u, answered(roleCheckUser({"admin"}, a), 200), {})

\* ------------------------------------------------ password reset routes
\* what POST /api/password-reset/request answers for email over the accounts
\* us when the next token is tokenId: the status and the JSON body
requestResetReply(us, tokenId, email) ==
  LET found == {u \in DOMAIN us : us[u].email = email}
      user == us[CHOOSE u \in found : \A v \in found : u <= v]
  IN  IF email = "" THEN [code |-> 400, body |-> <<"Validation error">>]
      ELSE IF found = {}
        THEN [code |-> 200,
              body |-> <<"If an account with that email exists, a password reset link has been sent.">>]
      ELSE IF ~user.isActive
        THEN [code |-> 400,
              body |-> <<"Account is deactivated. Please contact administrator.">>]
      ELSE [code |-> 200,
            body |-> <<"Password reset link has been sent to your email.",
                       tokenId>>]

\* POST /api/password-reset/request (public); an empty email stands for one
\* that is not an email address; the token string is the id of its document
RequestReset(email) ==
  /\ UNCHANGED <<store, nextEmployeeId, users, nextUserId>>
  /\ LET found == {u \in DOMAIN users : users[u].email = email}
         answer == requestResetReply(users, nextTokenId, email)
     IN  /\ reply("requestReset", 0, 0, answer.code, {answer.body})
         /\ IF email # "" /\ found # {} /\ Len(answer.body) = 2
              THEN /\ resetTokens' =
                        (nextTokenId :>
                           [userId |-> CHOOSE u \in found : \A v \in found : u <= v,
                            token |-> nextTokenId, used |-> FALSE,
                            expired |-> FALSE]) @@ resetTokens
                   /\ nextTokenId' = nextTokenId + 1
              ELSE UNCHANGED tokens

\* an hour passes for token t: expiresAt is no longer in the future
ExpireToken(t) ==
  /\ t \in DOMAIN resetTokens
  /\ ~resetTokens[t].expired
  /\ resetTokens' = [resetTokens EXCEPT ![t].expired = TRUE]
  /\ UNCHANGED <<store, nextEmployeeId, users, nextUserId, nextTokenId, resp>>

verifyTokenAnyUse(token) ==
  {t \in DOMAIN resetTokens : /\ resetTokens[t].token = token
                               /\ ~resetTokens[t].expired}

\* PasswordResetToken.verifyToken(token): the unused, unexpired documents
\* that carry the token
verifyToken(token) ==
  {t \in DOMAIN resetTokens : /\ resetTokens[t].token = token
                               /\ ~resetTokens[t].used
                               /\ ~resetTokens[t].expired}

\* POST /api/password-reset/reset as it runs among other requests, first
\* part: the validators and verifyToken with its populate; token 0 and an
\* empty password stand for values the validators refuse
ResetVerify(r, token, newPassword) ==
  /\ r \notin DOMAIN inflight
  /\ UNCHANGED <<store, accounts>>
  /\ LET found == verifyToken(token)
         refuse(code) == /\ reply("reset", r, token, code, {})
                         /\ UNCHANGED inflight
     IN  IF token = 0 \/ newPassword = "" THEN refuse(400)
         ELSE IF found = {} THEN refuse(400)
         ELSE LET t == CHOOSE x \in found : \A y \in found : x <= y
              IN  IF resetTokens[t].userId \notin DOMAIN users
                    \* populate left userId null; setting .password throws
                    THEN refuse(500)
                  ELSE /\ inflight' = (r :> [op |-> "reset", pc |-> "save",
                                             token |-> t,
                                             userId |-> resetTokens[t].userId,
                                             newPassword |-> newPassword])
                                        @@ inflight
                       /\ UNCHANGED resp

\* second part: user.save() with the new password
ResetSave(r) ==
  /\ r \in DOMAIN inflight
  /\ inflight[r].op = "reset"
  /\ inflight[r].pc = "save"
  /\ UNCHANGED <<store, nextEmployeeId, nextUserId, tokens>>
  /\ LET u == inflight[r].userId
     IN  IF u \notin DOMAIN users
           THEN /\ reply("reset", r, inflight[r].token, 500, {})
                /\ inflight' = [x \in DOMAIN inflight \ {r} |-> inflight[x]]
                /\ UNCHANGED users
         ELSE /\ users' = [users EXCEPT
                             ![u].password = hashed(inflight[r].newPassword)]
              /\ inflight' = [inflight EXCEPT ![r].pc = "mark"]
              /\ UNCHANGED resp

\* third part: resetToken.markAsUsed() and the answer
ResetMark(r) ==
  /\ r \in DOMAIN inflight
  /\ inflight[r].op = "reset"
  /\ inflight[r].pc = "mark"
  /\ UNCHANGED <<store, nextEmployeeId, users, nextUserId, nextTokenId>>
  /\ resetTokens' = [resetTokens EXCEPT ![inflight[r].token].used = TRUE]
  /\ inflight' = [x \in DOMAIN inflight \ {r} |-> inflight[x]]
  /\ reply("reset", r, inflight[r].token, 200, {})

\* ---------------------------------------------------- timesheet routes
\* GET /api/timesheets[?employeeId=q]; q = 0 stands for no filter
ListTimesheets(p, q) ==
  /\ UNCHANGED store
  /\ IF allRoles(p) # 0
       THEN reply("listTimesheets", p, q, allRoles(p), {})
     ELSE IF role[p] = "employee" /\ linkedEmployeeId[p] \notin DOMAIN employees
       THEN reply("listTimesheets", p, q, 404, {})
     ELSE LET want == IF role[p] = "employee" THEN linkedEmployeeId[p] ELSE q
              found == {i \in DOMAIN timesheets :
                          want = 0 \/ timesheets[i].employeeId = want}
          IN  reply("listTimesheets", p, q, 200, {timesheets[i] : i \in found})

\* the status that GET /api/timesheets/:id answers over the collections given
getTimesheetCode(sheets, emps, p, id) ==
  IF allRoles(p) # 0 THEN allRoles(p)
  ELSE IF id \notin DOMAIN sheets THEN 404
  ELSE IF role[p] = "employee" /\ sheets[id].employeeId \notin DOMAIN emps
    \* populate left employeeId null; reading ._id throws
    THEN 500
  ELSE IF role[p] = "employee" /\ sheets[id].employeeId # linkedEmployeeId[p]
    THEN 403
  ELSE 200

\* GET /api/timesheets/:id
GetTimesheet(p, id) ==
  /\ UNCHANGED store
  /\ LET code == getTimesheetCode(timesheets, employees, p, id)
     IN  reply("getTimesheet", p, id, code,
               IF code = 200 THEN {timesheets[id]} ELSE {})

\* POST /api/timesheets
CreateTimesheet(p, body) ==
  /\ UNCHANGED <<employees, expenses, nextExpenseId>>
  /\ LET id == nextTimesheetId
         doc == [employeeId |-> body.employeeId, date |-> body.date,
                 startTime |-> body.startTime, endTime |-> body.endTime,
                 breakTime |-> body.breakTime,
                 totalHoursWorked |-> 0, otHours |-> 0, status |-> "draft",
                 isVacationWork |-> IF "isVacationWork" \in DOMAIN body
                                      THEN body.isVacationWork ELSE FALSE,
                 isHolidayWork |-> IF "isHolidayWork" \in DOMAIN body
                                     THEN body.isHolidayWork ELSE FALSE]
         hours == calculateHours(doc.startTime, doc.endTime, doc.breakTime)
         saved == [doc EXCEPT !.totalHoursWorked = hours.totalHoursWorked,
                              !.otHours = hours.otHours]
         refuse(code) == /\ reply("createTimesheet", p, 0, code, {})
                         /\ UNCHANGED <<timesheets, nextTimesheetId>>
     IN  IF allRoles(p) # 0 THEN refuse(allRoles(p))
         ELSE IF ~(validTime(body.startTime) /\ validTime(body.endTime))
           THEN refuse(400)
         ELSE IF body.employeeId \notin DOMAIN employees THEN refuse(404)
         ELSE IF role[p] = "employee" /\ body.employeeId # linkedEmployeeId[p]
           THEN refuse(403)
         ELSE IF \E i \in DOMAIN timesheets :
                   /\ timesheets[i].employeeId = body.employeeId
                   /\ timesheets[i].date = body.date
           THEN refuse(400)
         ELSE IF ~timesheetSchemaValid(doc) THEN refuse(500)
         ELSE /\ timesheets' = (id :> saved) @@ timesheets
              /\ nextTimesheetId' = nextTimesheetId + 1
              /\ reply("createTimesheet", p, id, 201, {saved})

\* POST /api/timesheets as it runs among other requests, first part: the
\* handler up to and including the existence check `DailyTimesheet.findOne`;
\* request r then waits for its save
CreateTimesheetCheck(r, p, body) ==
  /\ r \notin DOMAIN inflight
  /\ UNCHANGED <<employees, expenses, nextExpenseId, accounts, reports,
                 timesheets, nextTimesheetId>>
  /\ LET refuse(code) == /\ reply("createTimesheet", p, 0, code, {})
                         /\ UNCHANGED inflight
     IN  IF allRoles(p) # 0 THEN refuse(allRoles(p))
         ELSE IF ~(validTime(body.startTime) /\ validTime(body.endTime))
           THEN refuse(400)
         ELSE IF body.employeeId \notin DOMAIN employees THEN refuse(404)
         ELSE IF role[p] = "employee" /\ body.employeeId # linkedEmployeeId[p]
           THEN refuse(403)
         ELSE IF \E i \in DOMAIN timesheets :
                   /\ timesheets[i].employeeId = body.employeeId
                   /\ timesheets[i].date = body.date
           THEN refuse(400)
         ELSE /\ inflight' = (r :> [op |-> "createTimesheet", by |-> p,
                                    body |-> body]) @@ inflight
              /\ UNCHANGED resp

\* second part: `timesheet.save()`; the index on {employeeId, date} is not
\* unique, so the insert is checked against the schema only
CreateTimesheetSave(r) ==
  /\ r \in DOMAIN inflight
  /\ inflight[r].op = "createTimesheet"
  /\ UNCHANGED <<employees, expenses, nextExpenseId, accounts, reports>>
  /\ inflight' = [q \in DOMAIN inflight \ {r} |-> inflight[q]]
  /\ LET p == inflight[r].by
         body == inflight[r].body
         id == nextTimesheetId
         doc == [employeeId |-> body.employeeId, date |-> body.date,
                 startTime |-> body.startTime, endTime |-> body.endTime,
                 breakTime |-> body.breakTime,
                 totalHoursWorked |-> 0, otHours |-> 0, status |-> "draft",
                 isVacationWork |-> IF "isVacationWork" \in DOMAIN body
                                      THEN body.isVacationWork ELSE FALSE,
                 isHolidayWork |-> IF "isHolidayWork" \in DOMAIN body
                                     THEN body.isHolidayWork ELSE FALSE]
         hours == calculateHours(doc.startTime, doc.endTime, doc.breakTime)
         saved == [doc EXCEPT !.totalHoursWorked = hours.totalHoursWorked,
                              !.otHours = hours.otHours]
     IN  IF ~timesheetSchemaValid(doc)
           THEN /\ reply("createTimesheet", p, 0, 500, {})
                /\ UNCHANGED <<timesheets, nextTimesheetId>>
         ELSE /\ timesheets' = (id :> saved) @@ timesheets
              /\ nextTimesheetId' = nextTimesheetId + 1
              /\ reply("createTimesheet", p, id, 201, {saved})

\* PUT /api/timesheets/:id
UpdateTimesheet(p, id, body) ==
  /\ UNCHANGED <<employees, nextTimesheetId, expenses, nextExpenseId>>
  /\ LET refuse(code) == /\ reply("updateTimesheet", p, id, code, {})
                         /\ UNCHANGED timesheets
     IN  IF allRoles(p) # 0 THEN refuse(allRoles(p))
         ELSE IF \/ "startTime" \in DOMAIN body /\ ~validTime(body.startTime)
                 \/ "endTime" \in DOMAIN body /\ ~validTime(body.endTime)
           THEN refuse(400)
         ELSE IF id \notin DOMAIN timesheets THEN refuse(404)
         ELSE IF role[p] = "employee"
                 /\ timesheets[id].employeeId # linkedEmployeeId[p]
           THEN refuse(403)
         ELSE LET updated == applyBody(timesheets[id], body)
              IN  IF ~timesheetSchemaValid(updated) THEN refuse(500)
                  ELSE /\ timesheets' = [timesheets EXCEPT ![id] = updated]
                       /\ reply("updateTimesheet", p, id, 200, {updated})

\* DELETE /api/timesheets/:id
DeleteTimesheet(p, id) ==
  /\ UNCHANGED <<employees, nextTimesheetId, expenses, nextExpenseId>>
  /\ IF adminOrManager(p) # 0
       THEN /\ reply("deleteTimesheet", p, id, adminOrManager(p), {})
            /\ UNCHANGED timesheets
     ELSE IF id \notin DOMAIN timesheets
       THEN /\ reply("deleteTimesheet", p, id, 404, {})
            /\ UNCHANGED timesheets
     ELSE /\ timesheets' = [i \in DOMAIN timesheets \ {id} |-> timesheets[i]]
          /\ reply("deleteTimesheet", p, id, 200, {})

\* ------------------------------------------------------ expense routes
ExpenseStatuses == {"draft", "submitted", "approved", "rejected", "reimbursed"}
MaxReasonLength == 500

\* schema validators of DailyExpense on a whole document
expenseSchemaValid(doc) ==
  /\ doc.amount >= 0
  /\ doc.status \in ExpenseStatuses

\* GET /api/expenses[?employeeId=q]; q = 0 stands for no filter
ListExpenses(p, q) ==
  /\ UNCHANGED store
  /\ IF allRoles(p) # 0
       THEN reply("listExpenses", p, q, allRoles(p), {})
     ELSE IF role[p] = "employee" /\ linkedEmployeeId[p] \notin DOMAIN employees
       THEN reply("listExpenses", p, q, 404, {})
     ELSE LET want == IF role[p] = "employee" THEN linkedEmployeeId[p] ELSE q
              found == {i \in DOMAIN expenses :
                          want = 0 \/ expenses[i].employeeId = want}
          IN  reply("listExpenses", p, q, 200, {expenses[i] : i \in found})

\* the status that GET /api/expenses/:id answers over the collections given
getExpenseCode(exps, emps, p, id) ==
  IF allRoles(p) # 0 THEN allRoles(p)
  ELSE IF id \notin DOMAIN exps THEN 404
  ELSE IF role[p] = "employee" /\ exps[id].employeeId \notin DOMAIN emps
    \* populate left employeeId null; reading ._id throws
    THEN 500
  ELSE IF role[p] = "employee" /\ exps[id].employeeId # linkedEmployeeId[p]
    THEN 403
  ELSE 200

\* GET /api/expenses/:id
GetExpense(p, id) ==
  /\ UNCHANGED store
  /\ LET code == getExpenseCode(expenses, employees, p, id)
     IN  reply("getExpense", p, id, code,
               IF code = 200 THEN {expenses[id]} ELSE {})

\* POST /api/expenses
CreateExpense(p, body) ==
  /\ UNCHANGED <<employees, timesheets, nextTimesheetId>>
  /\ LET id == nextExpenseId
         doc == [employeeId |-> body.employeeId, amount |-> body.amount,
                 status |-> "draft", approvedBy |-> "nobody",
                 approvedAt |-> "unset", rejectionReason |-> "unset"]
         refuse(code) == /\ reply("createExpense", p, 0, code, {})
                         /\ UNCHANGED <<expenses, nextExpenseId>>
     IN  IF allRoles(p) # 0 THEN refuse(allRoles(p))
         ELSE IF body.amount < 0 THEN refuse(400)
         ELSE IF body.employeeId \notin DOMAIN employees THEN refuse(404)
         ELSE IF role[p] = "employee" /\ body.employeeId # linkedEmployeeId[p]
           THEN refuse(403)
         ELSE IF ~expenseSchemaValid(doc) THEN refuse(500)
         ELSE /\ expenses' = (id :> doc) @@ expenses
              /\ nextExpenseId' = nextExpenseId + 1
              /\ reply("createExpense", p, id, 201, {doc})

\* a status gate that also lets submitted expenses through
ownerMayUpdateSubmitted(status) == status \in {"draft", "rejected", "submitted"}
\* the status gate of PUT /api/expenses/:id for the owning employee
ownerMayUpdate(status) == status \in {"draft", "rejected"}

\* PUT /api/expenses/:id
UpdateExpense(p, id, body) ==
  /\ UNCHANGED <<employees, timesheets, nextTimesheetId, nextExpenseId>>
  /\ LET refuse(code) == /\ reply("updateExpense", p, id, code, {})
                         /\ UNCHANGED expenses
     IN  IF allRoles(p) # 0 THEN refuse(allRoles(p))
         ELSE IF "amount" \in DOMAIN body /\ body.amount < 0 THEN refuse(400)
         ELSE IF id \notin DOMAIN expenses THEN refuse(404)
         ELSE IF role[p] = "employee"
                 /\ expenses[id].employeeId # linkedEmployeeId[p]
           THEN refuse(403)
         ELSE IF role[p] = "employee" /\ ~ownerMayUpdate(expenses[id].status)
           THEN refuse(403)
         ELSE LET updated == applyBody(expenses[id], body)
              IN  IF ~expenseSchemaValid(updated) THEN refuse(500)
                  ELSE /\ expenses' = [expenses EXCEPT ![id] = updated]
                       /\ reply("updateExpense", p, id, 200, {updated})

\* PUT /api/expenses/:id/submit
SubmitExpense(p, id) ==
  /\ UNCHANGED <<employees, timesheets, nextTimesheetId, nextExpenseId>>
  /\ LET refuse(code) == /\ reply("submitExpense", p, id, code, {})
                         /\ UNCHANGED expenses
     IN  IF allRoles(p) # 0 THEN refuse(allRoles(p))
         ELSE IF id \notin DOMAIN expenses THEN refuse(404)
         ELSE IF role[p] = "employee"
                 /\ expenses[id].employeeId # linkedEmployeeId[p]
           THEN refuse(403)
         ELSE IF expenses[id].status # "draft" THEN refuse(400)
         ELSE LET saved == [expenses[id] EXCEPT !.status = "submitted"]
              IN  /\ expenses' = [expenses EXCEPT ![id] = saved]
                  /\ reply("submitExpense", p, id, 200, {saved})

\* an approval gate that also accepts drafts
approvableWithDraft(status) == status \in {"draft", "submitted", "rejected"}
\* the statuses PUT /api/expenses/:id/approve accepts
approvable(status) == status \in {"submitted", "rejected"}

\* PUT /api/expenses/:id/approve
ApproveExpense(p, id) ==
  /\ UNCHANGED <<employees, timesheets, nextTimesheetId, nextExpenseId>>
  /\ LET refuse(code) == /\ reply("approveExpense", p, id, code, {})
                         /\ UNCHANGED expenses
     IN  IF adminOrManager(p) # 0 THEN refuse(adminOrManager(p))
         ELSE IF id \notin DOMAIN expenses THEN refuse(404)
         ELSE IF ~approvable(expenses[id].status) THEN refuse(400)
         ELSE LET saved == [expenses[id] EXCEPT !.status = "approved",
                                                !.approvedBy = p,
                                                !.approvedAt = "stamped"]
              IN  /\ expenses' = [expenses EXCEPT ![id] = saved]
                  /\ reply("approveExpense", p, id, 200, {saved})

\* the statuses PUT /api/expenses/:id/reject accepts
rejectable(status) == status \in {"submitted", "approved"}

\* PUT /api/expenses/:id/reject
RejectExpense(p, id, body) ==
  /\ UNCHANGED <<employees, timesheets, nextTimesheetId, nextExpenseId>>
  /\ LET refuse(code) == /\ reply("rejectExpense", p, id, code, {})
                         /\ UNCHANGED expenses
         reason == IF "rejectionReason" \in DOMAIN body
                     THEN body.rejectionReason ELSE ""
     IN  IF adminOrManager(p) # 0 THEN refuse(adminOrManager(p))
         ELSE IF Len(reason) > MaxReasonLength THEN refuse(400)
         ELSE IF id \notin DOMAIN expenses THEN refuse(404)
         ELSE IF ~rejectable(expenses[id].status) THEN refuse(400)
         ELSE LET saved == [expenses[id] EXCEPT !.status = "rejected",
                                                !.rejectionReason = reason]
              IN  /\ expenses' = [expenses EXCEPT ![id] = saved]
                  /\ reply("rejectExpense", p, id, 200, {saved})

\* DELETE /api/expenses/:id
ownerMayDeleteSubmitted(status) == status \in {"draft", "submitted"}

\* expense.status !== 'draft' refuses the owner's delete
ownerMayDelete(status) == status = "draft"

DeleteExpense(p, id) ==
  /\ UNCHANGED <<employees, timesheets, nextTimesheetId, nextExpenseId>>
  /\ LET refuse(code) == /\ reply("deleteExpense", p, id, code, {})
                         /\ UNCHANGED expenses
     IN  IF allRoles(p) # 0 THEN refuse(allRoles(p))
         ELSE IF id \notin DOMAIN expenses THEN refuse(404)
         ELSE IF role[p] = "employee"
                 /\ expenses[id].employeeId # linkedEmployeeId[p]
           THEN refuse(403)
         ELSE IF role[p] = "employee" /\ ~ownerMayDelete(expenses[id].status)
           THEN refuse(403)
         ELSE /\ expenses' = [i \in DOMAIN expenses \ {id} |-> expenses[i]]
              /\ reply("deleteExpense", p, id, 200, {})

\* ------------------------------------------------------- report routes
\* Dates are day numbers, day 1 being 1 January 2020; hours are kept in
\* minutes, so an amount is sixty times the amount in currency units.
MinYear == 2020
MaxYear == 2030

isLeap(year) == year % 4 = 0 /\ (year % 100 # 0 \/ year % 400 = 0)

daysInMonth(year, month) ==
  IF month = 2 THEN (IF isLeap(year) THEN 29 ELSE 28)
  ELSE IF month \in {4, 6, 9, 11} THEN 30 ELSE 31

RECURSIVE daysBeforeMonth(_, _)
daysBeforeMonth(year, month) ==
  IF month = 1 THEN 0
  ELSE daysBeforeMonth(year, month - 1) + daysInMonth(year, month - 1)

RECURSIVE daysBeforeYear(_)
daysBeforeYear(year) ==
  IF year <= MinYear THEN 0
  ELSE daysBeforeYear(year - 1) + (IF isLeap(year - 1) THEN 366 ELSE 365)

\* new Date(year, month - 1, 1)
startDate(year, month) == daysBeforeYear(year) + daysBeforeMonth(year, month) + 1

endDateDayBefore(year, month) ==
  daysBeforeYear(year) + daysBeforeMonth(year, month) + daysInMonth(year, month) - 1

\* new Date(year, month, 0, 23, 59, 59): the last day of the month
endDate(year, month) ==
  daysBeforeYear(year) + daysBeforeMonth(year, month) + daysInMonth(year, month)

RECURSIVE sumOver(_, _)
\* the forEach accumulation of the amounts that the documents ids contribute
sumOver(amount, ids) ==
  IF ids = {} THEN 0
  ELSE LET i == CHOOSE j \in ids : TRUE
       IN  amount[i] + sumOver(amount, ids \ {i})

\* calculatePayableAmount(employee) on a summary with its totals set
calculatePayableAmount(summary, employee) ==
  LET regularPay == summary.totalRegularHours * employee.payRate
      otPay == summary.totalOTHours * employee.otRate
      vacationPay == summary.totalVacationHours * employee.vacationPayRate
      holidayPay == summary.totalHolidayHours * employee.payRate
  IN  [summary EXCEPT
         !.breakdown = [regularPay |-> regularPay, otPay |-> otPay,
                        vacationPay |-> vacationPay, holidayPay |-> holidayPay],
         !.totalPayableAmount = regularPay + otPay + vacationPay + holidayPay]

\* calculateMonthlySummary over the timesheets read from sheets
calculateMonthlySummary(monthlySummary, e, employee, year, month, sheets) ==
  LET found == {i \in DOMAIN sheets :
                  /\ sheets[i].employeeId = e
                  /\ sheets[i].date >= startDate(year, month)
                  /\ sheets[i].date <= endDate(year, month)}
      regular == [i \in found |->
                    max0(sheets[i].totalHoursWorked - sheets[i].otHours)]
      ot == [i \in found |-> sheets[i].otHours]
      vacation == [i \in found |-> IF sheets[i].isVacationWork
                                     THEN sheets[i].totalHoursWorked ELSE 0]
      holiday == [i \in found |-> IF sheets[i].isHolidayWork
                                    THEN sheets[i].totalHoursWorked ELSE 0]
  IN  calculatePayableAmount(
        [monthlySummary EXCEPT
           !.totalRegularHours = sumOver(regular, found),
           !.totalOTHours = sumOver(ot, found),
           !.totalVacationHours = sumOver(vacation, found),
           !.totalHolidayHours = sumOver(holiday, found)],
        employee)

\* new MonthlySummary({employeeId, year, month, generatedBy}) with defaults
newMonthlySummary(e, year, month, p) ==
  [employeeId |-> e, year |-> year, month |-> month,
   totalRegularHours |-> 0, totalOTHours |-> 0, totalVacationHours |-> 0,
   totalHolidayHours |-> 0, totalPayableAmount |-> 0,
   breakdown |-> [regularPay |-> 0, otPay |-> 0, vacationPay |-> 0,
                  holidayPay |-> 0],
   status |-> "draft", generatedBy |-> p, finalizedAt |-> "unset"]

findSummaryMisses(sums, e, year, month) == {}

\* MonthlySummary.findOne({employeeId, year, month}): the ids that match
findSummary(sums, e, year, month) ==
  {i \in DOMAIN sums : /\ sums[i].employeeId = e
                        /\ sums[i].year = year
                        /\ sums[i].month = month}

anyStatusEmployees == DOMAIN employees

\* Employee.find({status: 'active'})
activeEmployees == {e \in DOMAIN employees : employees[e].status = "active"}

\* the loop of generate over the employees todo, in the order of the
\* collection: the summary found for an employee is recomputed in place, an
\* employee without one gets a new document under the next free id
generateOver(todo, year, month, p) ==
  LET missing == {e \in todo : findSummary(summaries, e, year, month) = {}}
      newId(e) == nextSummaryId + Cardinality({x \in missing : x < e})
      first(e) == CHOOSE j \in findSummary(summaries, e, year, month) :
                    \A k \in findSummary(summaries, e, year, month) : j <= k
      found == {first(e) : e \in todo \ missing}
      recomputed(i) ==
        [calculateMonthlySummary(summaries[i], summaries[i].employeeId,
                                 employees[summaries[i].employeeId],
                                 year, month, timesheets)
           EXCEPT !.generatedBy = p]
      created(e) ==
        calculateMonthlySummary(newMonthlySummary(e, year, month, p), e,
                                employees[e], year, month, timesheets)
  IN  [sums |-> [i \in DOMAIN summaries \cup {newId(e) : e \in missing} |->
                   IF i \in found THEN recomputed(i)
                   ELSE IF i \in DOMAIN summaries THEN summaries[i]
                   ELSE created(CHOOSE e \in missing : newId(e) = i)],
       next |-> nextSummaryId + Cardinality(missing),
       touched |-> found \cup {newId(e) : e \in missing}]

\* the whole loop of generate
generateAll(year, month, p) == generateOver(activeEmployees, year, month, p)

\* the place of an active employee in the loop of generate
loopIndex(e) == 1 + Cardinality({x \in activeEmployees : x < e})

doneThroughFault(k) == {e \in activeEmployees : loopIndex(e) <= k}

\* the employees whose iteration ended before the k-th began
doneBeforeFault(k) == {e \in activeEmployees : loopIndex(e) < k}

\* POST /api/reports/generate/:year/:month; the id of the response stands for
\* the pair of the path, year * 100 + month
Generate(p, year, month) ==
  /\ UNCHANGED <<store, accounts, inflight>>
  /\ LET refuse(code) == /\ reply("generate", p, year * 100 + month, code, {})
                         /\ UNCHANGED reports
         all == generateAll(year, month, p)
     IN  IF adminOrManager(p) # 0 THEN refuse(adminOrManager(p))
         ELSE IF month < 1 \/ month > 12 THEN refuse(400)
         ELSE IF year < MinYear \/ year > MaxYear THEN refuse(400)
         ELSE /\ summaries' = all.sums
              /\ nextSummaryId' = all.next
              /\ reply("generate", p, year * 100 + month, 200,
                       {all.sums[i] : i \in all.touched})

\* generate with a storage operation (findOne, find or save) that throws in
\* the iteration of the k-th active employee: the saves of the iterations
\* before it stay, the catch answers 500
GenerateFault(p, year, month, k) ==
  /\ adminOrManager(p) = 0
  /\ month >= 1 /\ month <= 12
  /\ year >= MinYear /\ year <= MaxYear
  /\ k \in 1..Cardinality(activeEmployees)
  /\ UNCHANGED <<store, accounts, inflight>>
  /\ LET part == generateOver(doneBeforeFault(k), year, month, p)
     IN  /\ summaries' = part.sums
         /\ nextSummaryId' = part.next
         /\ reply("generate", p, year * 100 + month, 500, {})

uniqueSummaryKeyUnchecked(sums, doc) == TRUE

\* the unique index on {employeeId, year, month}: an insert of doc passes
uniqueSummaryKey(sums, doc) ==
  findSummary(sums, doc.employeeId, doc.year, doc.month) = {}

\* generate as it runs among other requests, first part: the role gate, the
\* validation and `Employee.find({status: 'active'})`; request r keeps the
\* employees it read and walks through them
GenerateStart(r, p, year, month) ==
  /\ r \notin DOMAIN inflight
  /\ UNCHANGED <<store, accounts, reports>>
  /\ LET refuse(code) == /\ reply("generate", p, year * 100 + month, code, {})
                         /\ UNCHANGED inflight
     IN  IF adminOrManager(p) # 0 THEN refuse(adminOrManager(p))
         ELSE IF month < 1 \/ month > 12 THEN refuse(400)
         ELSE IF year < MinYear \/ year > MaxYear THEN refuse(400)
         ELSE /\ inflight' =
                   (r :> [op |-> "generate", by |-> p, year |-> year,
                          month |-> month, pc |-> "find", found |-> 0,
                          todo |-> activeEmployees,
                          read |-> [e \in activeEmployees |-> employees[e]],
                          done |-> {}]) @@ inflight
              /\ UNCHANGED resp

\* the end of the loop: the response with the summaries of the request
GenerateReply(r) ==
  /\ r \in DOMAIN inflight
  /\ inflight[r].op = "generate"
  /\ inflight[r].pc = "find"
  /\ inflight[r].todo = {}
  /\ UNCHANGED <<store, accounts, reports>>
  /\ inflight' = [q \in DOMAIN inflight \ {r} |-> inflight[q]]
  /\ reply("generate", inflight[r].by,
           inflight[r].year * 100 + inflight[r].month, 200,
           {summaries[i] : i \in inflight[r].done \cap DOMAIN summaries})

\* `MonthlySummary.findOne` for the next employee of the loop
GenerateFind(r) ==
  /\ r \in DOMAIN inflight
  /\ inflight[r].op = "generate"
  /\ inflight[r].pc = "find"
  /\ inflight[r].todo # {}
  /\ UNCHANGED <<store, accounts, reports, resp>>
  /\ LET q == inflight[r]
         e == CHOOSE x \in q.todo : \A y \in q.todo : x <= y
         hit == findSummary(summaries, e, q.year, q.month)
     IN  inflight' = [inflight EXCEPT
                        ![r].pc = "save",
                        ![r].found = IF hit = {} THEN 0
                                     ELSE CHOOSE j \in hit : \A k \in hit : j <= k]

\* calculateMonthlySummary and `monthlySummary.save()` for that employee: an
\* update of the document found, or an insert that the unique index may
\* refuse, which ends the request with 500
GenerateSave(r) ==
  /\ r \in DOMAIN inflight
  /\ inflight[r].op = "generate"
  /\ inflight[r].pc = "save"
  /\ UNCHANGED <<store, accounts>>
  /\ LET q == inflight[r]
         e == CHOOSE x \in q.todo : \A y \in q.todo : x <= y
         base == IF q.found # 0 THEN summaries[q.found]
                 ELSE newMonthlySummary(e, q.year, q.month, q.by)
         doc == [calculateMonthlySummary(base, e, q.read[e], q.year, q.month,
                                         timesheets)
                   EXCEPT !.generatedBy = q.by]
         id == IF q.found # 0 THEN q.found ELSE nextSummaryId
     IN  IF q.found = 0 /\ ~uniqueSummaryKey(summaries, doc)
           THEN /\ inflight' = [x \in DOMAIN inflight \ {r} |-> inflight[x]]
                /\ UNCHANGED reports
                /\ reply("generate", q.by, q.year * 100 + q.month, 500, {})
         ELSE /\ summaries' = IF q.found # 0
                                THEN [summaries EXCEPT ![id] = doc]
                                ELSE (id :> doc) @@ summaries
              /\ nextSummaryId' = IF q.found # 0 THEN nextSummaryId
                                  ELSE nextSummaryId + 1
              /\ inflight' = [inflight EXCEPT ![r].pc = "find",
                                              ![r].todo = q.todo \ {e},
                                              ![r].done = q.done \cup {id}]
              /\ UNCHANGED resp

finalizableAgain(status) == TRUE

\* summary.status === 'finalized' refuses the request
finalizable(status) == status # "finalized"

\* PUT /api/reports/monthly/:id/finalize
Finalize(p, id) ==
  /\ UNCHANGED <<store, accounts, inflight, nextSummaryId>>
  /\ LET refuse(code) == /\ reply("finalize", p, id, code, {})
                         /\ UNCHANGED summaries
     IN  IF adminOrManager(p) # 0 THEN refuse(adminOrManager(p))
         ELSE IF id \notin DOMAIN summaries THEN refuse(404)
         ELSE IF ~finalizable(summaries[id].status) THEN refuse(400)
         ELSE LET doc == [summaries[id] EXCEPT !.status = "finalized",
                                               !.finalizedAt = "stamped"]
              IN  /\ summaries' = [summaries EXCEPT ![id] = doc]
                  /\ reply("finalize", p, id, 200, {doc})

\* the status that GET /api/reports/monthly/:employeeId/:year/:month answers
\* over the summaries given
getMonthlySummaryCode(sums, p, e, year, month) ==
  IF allRoles(p) # 0 THEN allRoles(p)
  ELSE IF role[p] = "employee" /\ e # linkedEmployeeId[p] THEN 403
  ELSE IF findSummary(sums, e, year, month) = {} THEN 404
  ELSE 200

\* GET /api/reports/monthly/:employeeId/:year/:month
GetMonthlySummary(p, e, year, month) ==
  /\ UNCHANGED <<store, accounts, inflight, reports>>
  /\ LET hit == findSummary(summaries, e, year, month)
         code == getMonthlySummaryCode(summaries, p, e, year, month)
     IN  reply("getMonthlySummary", p, e, code,
               IF code = 200
                 THEN {summaries[CHOOSE j \in hit : \A k \in hit : j <= k]}
                 ELSE {})

\* the text row of one summary, its employee populated
exportRow(summary, employee) ==
  <<employee.employeeId, employee.name, employee.position,
    summary.totalRegularHours, summary.totalOTHours,
    summary.totalVacationHours, summary.totalHolidayHours,
    summary.totalPayableAmount>>

\* GET /api/reports/export/:year/:month; the id of the response is the month
Export(p, year, month) ==
  /\ UNCHANGED <<store, accounts, inflight, reports>>
  /\ LET found == {i \in DOMAIN summaries : /\ summaries[i].year = year
                                            /\ summaries[i].month = month}
     IN  IF adminOrManager(p) # 0
           THEN reply("export", p, month, adminOrManager(p), {})
         ELSE IF \E i \in found : summaries[i].employeeId \notin DOMAIN employees
           \* populate left employeeId null; reading employee.employeeId throws
           THEN reply("export", p, month, 500, {})
         ELSE reply("export", p, month, 200,
                    {<<i, exportRow(summaries[i],
                                    employees[summaries[i].employeeId])>> :
                       i \in found})

\* ------------------------------------------------------ request inputs
NineAM == [h |-> 9, m |-> 0]
FivePM == [h |-> 17, m |-> 0]
SevenPM == [h |-> 19, m |-> 30]
TenPM == [h |-> 22, m |-> 0]
NotATime == [h |-> 24, m |-> 0]

CreateBodies ==
  [employeeId : EmployeeIds, date : Dates, startTime : {NineAM},
   endTime : {FivePM}, breakTime : {0}]

StatusBodies == {[status |-> s] : s \in TimesheetStatuses \cup {"bogus"}}

KeyBodies ==
  {[date |-> d] : d \in Dates} \cup {[employeeId |-> e] : e \in EmployeeIds}

HoursCreateBodies ==
  [employeeId : {1}, date : {1}, startTime : {NineAM, NotATime},
   endTime : {FivePM, SevenPM}, breakTime : {0, 60},
   totalHoursWorked : {60}, otHours : {120}]

HoursBodies ==
  {[startTime |-> t] : t \in {TenPM, NotATime}}
    \cup {[endTime |-> t] : t \in {FivePM, SevenPM}}
    \cup {[breakTime |-> b] : b \in {0, 60, 600}}
    \cup {[totalHoursWorked |-> 60], [otHours |-> 120]}
    \cup {[startTime |-> NineAM, endTime |-> FivePM, breakTime |-> 0,
           totalHoursWorked |-> 60, otHours |-> 0]}

\* Expense request inputs
ExpenseCreateBodies == [employeeId : {1}, amount : {10, -1}]

ExpenseBodies ==
  {[status |-> s] : s \in ExpenseStatuses \cup {"bogus"}}
    \cup {[amount |-> a] : a \in {10, -1}}

RejectBodies == {[f \in {} |-> ""], [rejectionReason |-> "no receipt"]}

AccessTimesheetBodies ==
  [employeeId : EmployeeIds, date : {1}, startTime : {NineAM},
   endTime : {FivePM}, breakTime : {0}]

AccessExpenseBodies == [employeeId : EmployeeIds, amount : {10}]

AccessBodies == {[status |-> "submitted"], [status |-> "approved"]}

\* the history variable stays as it is
quiet == UNCHANGED <<everSubmitted, accounts, reports, inflight>>

\* Timesheet lifecycle and access: one document, every status, both owners
Next ==
  \E p \in Principals :
    \/ DeleteEmployee(p, 2) /\ quiet
    \/ \E q \in {0} \cup EmployeeIds : ListTimesheets(p, q) /\ quiet
    \/ \E id \in 1..MaxTimesheets : GetTimesheet(p, id) /\ quiet
    \/ /\ nextTimesheetId <= MaxTimesheets
       /\ \E body \in CreateBodies : CreateTimesheet(p, body)
       /\ quiet
    \/ \E id \in 1..MaxTimesheets, body \in StatusBodies \cup KeyBodies :
         UpdateTimesheet(p, id, body) /\ quiet
    \/ \E id \in 1..MaxTimesheets : DeleteTimesheet(p, id) /\ quiet

Spec == Init /\ [][Next]_vars

\* Several documents of the same employees and days
NextSameDay ==
  \E p \in Principals :
    \/ /\ nextTimesheetId <= MaxSameDay
       /\ \E body \in CreateBodies : CreateTimesheet(p, body)
       /\ quiet
    \/ \E id \in TimesheetIds, body \in KeyBodies :
         UpdateTimesheet(p, id, body) /\ quiet
    \/ \E id \in TimesheetIds : DeleteTimesheet(p, id) /\ quiet

SpecSameDay == Init /\ [][NextSameDay]_vars

\* Start, end, break and the derived hours of one document
NextHours ==
  \E p \in {"admin", "emp1"} :
    \/ /\ nextTimesheetId <= MaxTimesheets
       /\ \E body \in HoursCreateBodies : CreateTimesheet(p, body)
       /\ quiet
    \/ \E id \in 1..MaxTimesheets, body \in HoursBodies :
         UpdateTimesheet(p, id, body) /\ quiet
    \/ \E id \in 1..MaxTimesheets : DeleteTimesheet(p, id) /\ quiet

SpecHours == Init /\ [][NextHours]_vars

\* Expense lifecycle
NextExpense ==
  \E p \in Principals :
    \/ /\ nextExpenseId <= MaxExpenses
       /\ \E body \in ExpenseCreateBodies : CreateExpense(p, body)
       /\ quiet
    \/ \E id \in ExpenseIds, body \in ExpenseBodies :
         UpdateExpense(p, id, body) /\ quiet
    \/ \E id \in ExpenseIds : SubmitExpense(p, id) /\ quiet
    \/ \E id \in ExpenseIds : ApproveExpense(p, id) /\ quiet
    \/ \E id \in ExpenseIds, body \in RejectBodies :
         RejectExpense(p, id, body) /\ quiet
    \/ \E id \in ExpenseIds : DeleteExpense(p, id) /\ quiet

SpecExpense == Init /\ [][NextExpense]_vars

\* The expense lifecycle with its history recorded
NextExpenseHistory ==
  \E p \in Principals :
    \/ /\ nextExpenseId <= MaxExpenses
       /\ \E body \in ExpenseCreateBodies : CreateExpense(p, body)
       /\ noteSubmitted
    \/ \E id \in ExpenseIds, body \in ExpenseBodies :
         UpdateExpense(p, id, body) /\ noteSubmitted
    \/ \E id \in ExpenseIds : SubmitExpense(p, id) /\ noteSubmitted
    \/ \E id \in ExpenseIds : ApproveExpense(p, id) /\ noteSubmitted
    \/ \E id \in ExpenseIds, body \in RejectBodies :
         RejectExpense(p, id, body) /\ noteSubmitted
    \/ \E id \in ExpenseIds : DeleteExpense(p, id) /\ noteSubmitted

SpecExpenseHistory == Init /\ [][NextExpenseHistory]_vars

\* Reads and writes across employees, timesheets and expenses together
NextAccess ==
  \E p \in Principals :
    \/ DeleteEmployee(p, 2) /\ quiet
    \/ \E q \in {0} \cup EmployeeIds : ListTimesheets(p, q) /\ quiet
    \/ \E id \in 1..MaxTimesheets : GetTimesheet(p, id) /\ quiet
    \/ /\ nextTimesheetId <= MaxTimesheets
       /\ \E body \in AccessTimesheetBodies : CreateTimesheet(p, body)
       /\ quiet
    \/ \E id \in 1..MaxTimesheets, body \in AccessBodies :
         UpdateTimesheet(p, id, body) /\ quiet
    \/ \E id \in 1..MaxTimesheets : DeleteTimesheet(p, id) /\ quiet
    \/ \E q \in {0} \cup EmployeeIds : ListExpenses(p, q) /\ quiet
    \/ \E id \in ExpenseIds : GetExpense(p, id) /\ quiet
    \/ /\ nextExpenseId <= MaxExpenses
       /\ \E body \in AccessExpenseBodies : CreateExpense(p, body)
       /\ quiet
    \/ \E id \in ExpenseIds, body \in AccessBodies :
         UpdateExpense(p, id, body) /\ quiet
    \/ \E id \in ExpenseIds : SubmitExpense(p, id) /\ quiet
    \/ \E id \in ExpenseIds : DeleteExpense(p, id) /\ quiet

SpecAccess == Init /\ [][NextAccess]_vars

\* Monthly reports: timesheets of January and February 2020 of two employees,
\* summaries generated, finalized and exported while employees come and go
LastOfJanuary == 31
FirstOfFebruary == 32

reportSheet(e, d, vacation, holiday) ==
  [employeeId |-> e, date |-> d, startTime |-> NineAM, endTime |-> SevenPM,
   breakTime |-> 0, isVacationWork |-> vacation, isHolidayWork |-> holiday]

ReportSheetBodies ==
  {reportSheet(1, LastOfJanuary - 1, TRUE, FALSE),
   reportSheet(1, LastOfJanuary, FALSE, TRUE),
   reportSheet(1, FirstOfFebruary, FALSE, FALSE),
   reportSheet(2, LastOfJanuary, FALSE, FALSE)}

\* a stored total below the stored overtime, as an update can leave it
ShortTotalBodies == {[totalHoursWorked |-> 60]}

ReportPeriods == {<<2020, 1>>, <<2020, 13>>, <<2019, 1>>}

SummaryIds == 1..MaxSummaries

noHistory == UNCHANGED everSubmitted

ReportStaff == {"admin", "emp1"}

NextReports ==
  \E p \in ReportStaff :
    \/ /\ nextTimesheetId <= MaxMonthSheets
       /\ p = "admin"
       /\ \E body \in ReportSheetBodies : CreateTimesheet(p, body)
       /\ quiet
    \/ /\ p = "admin"
       /\ \E body \in ShortTotalBodies : UpdateTimesheet(p, 1, body)
       /\ quiet
    \/ DeactivateEmployee(p, 2) /\ quiet
    \/ DeleteEmployee(p, 2) /\ quiet
    \/ \E k \in ReportPeriods : Generate(p, k[1], k[2]) /\ noHistory
    \/ \E id \in SummaryIds : Finalize(p, id) /\ noHistory
    \/ Export(p, 2020, 1) /\ noHistory

SpecReports == Init /\ [][NextReports]_vars

\* Create requests that run at the same time: each is split at the await
\* between its existence check and its save
Requests == {1, 2}

RaceBodies ==
  [employeeId : {1}, date : {1, 2}, startTime : {NineAM},
   endTime : {FivePM, SevenPM}, breakTime : {0}]

NextCreateRace ==
  \/ /\ nextTimesheetId + Cardinality(DOMAIN inflight) <= MaxSameDay
     /\ \E r \in Requests, p \in {"admin", "emp1", "emp2"}, body \in RaceBodies :
          CreateTimesheetCheck(r, p, body)
     /\ noHistory
  \/ \E r \in Requests : CreateTimesheetSave(r) /\ noHistory
  \/ \E p \in {"admin", "emp1"}, id \in TimesheetIds :
       DeleteTimesheet(p, id) /\ quiet

SpecCreateRace == Init /\ [][NextCreateRace]_vars

\* Generate requests that run at the same time, split at their awaits, while
\* summaries are finalized and a timesheet is entered
NextGenerateRace ==
  \/ \E r \in Requests, p \in ReportStaff, k \in ReportPeriods :
       GenerateStart(r, p, k[1], k[2]) /\ noHistory
  \/ \E r \in Requests : GenerateFind(r) /\ noHistory
  \/ \E r \in Requests : GenerateSave(r) /\ noHistory
  \/ \E r \in Requests : GenerateReply(r) /\ noHistory
  \/ \E id \in SummaryIds : Finalize("admin", id) /\ noHistory
  \/ /\ nextTimesheetId <= MaxTimesheets
     /\ CreateTimesheet("admin", reportSheet(1, LastOfJanuary, FALSE, FALSE))
     /\ quiet

SpecGenerateRace == Init /\ [][NextGenerateRace]_vars

\* The hours calculation on well-formed times of day and breaks of 0..480
\* minutes
ClockTimes == [h : {0, 8, 9, 17, 23}, m : {0, 30, 59}]

BreakTimes == {0, 60, 480}

NextCalculate ==
  \E startTime \in ClockTimes, endTime \in ClockTimes, breakTime \in BreakTimes :
    CalculateHours(startTime, endTime, breakTime) /\ quiet

SpecCalculate == Init /\ [][NextCalculate]_vars

\* Reads by employees of records that exist, that were deleted and that
\* never existed
NextExistence ==
  \/ /\ nextTimesheetId <= MaxTimesheets
     /\ \E body \in AccessTimesheetBodies : CreateTimesheet("admin", body)
     /\ quiet
  \/ /\ nextExpenseId <= MaxExpenses
     /\ \E body \in AccessExpenseBodies : CreateExpense("admin", body)
     /\ quiet
  \/ \E k \in ReportPeriods : Generate("manager", k[1], k[2]) /\ noHistory
  \/ \E id \in 1..MaxTimesheets : DeleteTimesheet("admin", id) /\ quiet
  \/ \E id \in ExpenseIds : DeleteExpense("admin", id) /\ quiet
  \/ DeactivateEmployee("manager", 2) /\ quiet
  \/ \E p \in Principals, id \in 1..MaxTimesheets : GetTimesheet(p, id) /\ quiet
  \/ \E p \in Principals, id \in ExpenseIds : GetExpense(p, id) /\ quiet
  \/ \E p \in Principals, e \in EmployeeIds :
       GetMonthlySummary(p, e, 2020, 1) /\ noHistory

SpecExistence == Init /\ [][NextExistence]_vars

\* Generation that a storage fault can cut short, between timesheet changes
FaultSheetBodies ==
  {reportSheet(1, LastOfJanuary, TRUE, FALSE),
   reportSheet(2, LastOfJanuary, FALSE, TRUE),
   reportSheet(2, LastOfJanuary - 1, FALSE, FALSE)}

NextBatchFault ==
  \/ /\ nextTimesheetId <= MaxMonthSheets
     /\ \E body \in FaultSheetBodies : CreateTimesheet("admin", body)
     /\ quiet
  \/ \E id \in 1..MaxMonthSheets : DeleteTimesheet("admin", id) /\ quiet
  \/ \E p \in {"manager", "emp1"} : Generate(p, 2020, 1) /\ noHistory
  \/ \E k \in EmployeeIds : GenerateFault("manager", 2020, 1, k) /\ noHistory
  \/ \E e \in EmployeeIds : DeactivateEmployee("manager", e) /\ quiet

SpecBatchFault == Init /\ [][NextBatchFault]_vars

\* Employee management by every principal
EmployeeBodies ==
  {[employeeId |-> 3, rates |-> PayRates[2], email |-> "emp3", password |-> "secret"],
   [employeeId |-> 1, rates |-> PayRates[2], email |-> "emp3", password |-> "secret"],
   [employeeId |-> 0, rates |-> PayRates[1], email |-> "emp3", password |-> "secret"],
   [employeeId |-> 4, rates |-> PayRates[1], email |-> "emp1", password |-> "secret"]}

EmployeeUpdateBodies ==
  {[payRate |-> 12], [employeeId |-> 2], [status |-> "gone"]}

noRecords == UNCHANGED <<everSubmitted, reports, inflight>>

NextEmployees ==
  \/ /\ nextEmployeeId <= MaxEmployees
     /\ \E p \in Principals, body \in EmployeeBodies : CreateEmployee(p, body)
     /\ noRecords
  \/ /\ nextEmployeeId <= MaxEmployees
     /\ \E p \in Principals, body \in EmployeeBodies : CreateEmployeeOnly(p, body)
     /\ noRecords
  \/ \E p \in Principals, e \in 1..MaxEmployees, body \in EmployeeUpdateBodies :
       UpdateEmployee(p, e, body) /\ quiet
  \/ \E p \in Principals, e \in 1..MaxEmployees : DeactivateEmployee(p, e) /\ quiet
  \/ \E p \in Principals, e \in 1..MaxEmployees : ActivateEmployee(p, e) /\ quiet
  \/ \E p \in Principals, e \in 1..MaxEmployees : DeleteEmployee(p, e) /\ quiet
  \/ \E p \in Principals, e \in 1..MaxEmployees : GetEmployee(p, e) /\ quiet
  \/ \E p \in Principals : ListEmployees(p) /\ quiet

SpecEmployees == Init /\ [][NextEmployees]_vars

\* User management and employee creation; the caller is an account, 0 stands
\* for a request without one
Callers == {0, 1, 2}

UserBodies ==
  {[username |-> "u5", email |-> "u5", password |-> "secret", role |-> "employee",
    linkedEmployeeId |-> 1],
   [username |-> "u5", email |-> "u5", password |-> "secret", role |-> "admin",
    linkedEmployeeId |-> 0],
   [username |-> "u5", email |-> "u5", password |-> "secret", role |-> "employee",
    linkedEmployeeId |-> 0],
   [username |-> "u5", email |-> "", password |-> "secret", role |-> "manager",
    linkedEmployeeId |-> 0],
   [username |-> "u5", email |-> "emp1", password |-> "secret", role |-> "manager",
    linkedEmployeeId |-> 0]}

UserUpdateBodies ==
  {[role |-> "manager"], [role |-> "employee"], [linkedEmployeeId |-> 2],
   [email |-> "emp1"], [role |-> "boss"]}

\* the accounts that the requests of the specification aim at
UpdateTargets == {1, 3}
DeleteTargets == {1, 2, MaxUsers}
ToggleTargets == {1, 2}

NewEmployeeBodies ==
  {[employeeId |-> 3, rates |-> PayRates[2], email |-> "u5", password |-> "secret"]}

NextUsers ==
  \/ /\ nextUserId <= MaxUsers
     /\ \E a \in Callers, body \in UserBodies : CreateUser(a, body)
     /\ UNCHANGED <<everSubmitted, reports, inflight>>
  \/ \E a \in Callers, u \in UpdateTargets, body \in UserUpdateBodies :
       UpdateUser(a, u, body) /\ UNCHANGED <<everSubmitted, reports, inflight>>
  \/ \E a \in Callers, u \in DeleteTargets :
       DeleteUser(a, u) /\ UNCHANGED <<everSubmitted, reports, inflight>>
  \/ \E a \in Callers, u \in ToggleTargets :
       ToggleUserStatus(a, u) /\ UNCHANGED <<everSubmitted, reports, inflight>>
  \/ /\ nextUserId <= MaxUsers
     /\ nextEmployeeId <= MaxEmployees
     /\ \E body \in NewEmployeeBodies : CreateEmployee("manager", body)
     /\ noRecords

SpecUsers == Init /\ [][NextUsers]_vars

\* Password resets that run at the same time, for the account of employee 1
\* (account 3), which the admin deactivates and reactivates
ResetEmails == {"emp1", "nobody", ""}

NewPasswords == {"changed", "other", ""}

ResetTokenStrings == 0..MaxTokens

noWork == UNCHANGED <<everSubmitted, reports>>

NextPasswordReset ==
  \/ /\ nextTokenId <= MaxTokens
     /\ \E email \in ResetEmails : RequestReset(email)
     /\ noWork /\ UNCHANGED inflight
  \/ \E t \in 1..MaxTokens : ExpireToken(t) /\ noWork /\ UNCHANGED inflight
  \/ \E r \in Requests, token \in ResetTokenStrings, newPassword \in NewPasswords :
       ResetVerify(r, token, newPassword) /\ noWork
  \/ \E r \in Requests : ResetSave(r) /\ noWork
  \/ \E r \in Requests : ResetMark(r) /\ noWork
  \/ ToggleUserStatus(1, 3) /\ UNCHANGED <<everSubmitted, reports, inflight>>

SpecPasswordReset == Init /\ [][NextPasswordReset]_vars

\* Creates and updates that name an employee, by employees and a manager
OwnerBodies ==
  {[employeeId |-> e] : e \in EmployeeIds} \cup {[breakTime |-> 30]}

OwnerPrincipals == {"manager", "emp1", "emp2"}

NextOwnership ==
  \E p \in OwnerPrincipals :
    \/ /\ nextTimesheetId <= MaxTimesheets
       /\ \E body \in AccessTimesheetBodies : CreateTimesheet(p, body)
       /\ quiet
    \/ \E id \in 1..MaxTimesheets, body \in OwnerBodies :
         UpdateTimesheet(p, id, body) /\ quiet
    \/ /\ nextExpenseId <= MaxExpenses
       /\ \E body \in AccessExpenseBodies : CreateExpense(p, body)
       /\ quiet
    \/ \E id \in ExpenseIds, body \in OwnerBodies :
         UpdateExpense(p, id, body) /\ quiet

SpecOwnership == Init /\ [][NextOwnership]_vars

\* Generation for January and February 2020 while employee 2 is deactivated,
\* terminated and activated again
ActivePeriods == {<<2020, 1>>, <<2020, 2>>}

ActiveSheetBodies ==
  {reportSheet(2, LastOfJanuary, FALSE, FALSE),
   reportSheet(2, FirstOfFebruary, TRUE, FALSE),
   reportSheet(1, LastOfJanuary, FALSE, TRUE)}

NextActiveOnly ==
  \/ /\ nextTimesheetId <= MaxMonthSheets
     /\ \E body \in ActiveSheetBodies : CreateTimesheet("admin", body)
     /\ quiet
  \/ \E k \in ActivePeriods : Generate("manager", k[1], k[2]) /\ noHistory
  \/ DeactivateEmployee("manager", 2) /\ quiet
  \/ ActivateEmployee("manager", 2) /\ quiet
  \/ UpdateEmployee("admin", 2, [status |-> "terminated"]) /\ quiet

SpecActiveOnly == Init /\ [][NextActiveOnly]_vars

\* Requests of every router, well-formed and malformed, by callers that are
\* allowed, not allowed and not logged in
GatePrincipals == {"admin", "manager", "emp2"}

GateTimesheetBodies ==
  {[employeeId |-> 1, date |-> 1, startTime |-> NineAM, endTime |-> FivePM,
    breakTime |-> 0],
   [employeeId |-> 1, date |-> 1, startTime |-> NotATime, endTime |-> FivePM,
    breakTime |-> 0]}

GateTimesheetUpdates == {[startTime |-> NotATime], [breakTime |-> 30]}

GateExpenseUpdates == {[amount |-> -1], [amount |-> 20]}

GateEmployeeBodies ==
  {[employeeId |-> 3, rates |-> PayRates[2], email |-> "emp3", password |-> "secret"],
   [employeeId |-> 0, rates |-> PayRates[1], email |-> "emp3", password |-> "secret"],
   [employeeId |-> 4, rates |-> PayRates[1], email |-> "emp1", password |-> "secret"]}

GateUserBodies ==
  {[username |-> "u5", email |-> "u5", password |-> "secret", role |-> "manager",
    linkedEmployeeId |-> 0],
   [username |-> "u5", email |-> "", password |-> "secret", role |-> "manager",
    linkedEmployeeId |-> 0]}

GateUserUpdates == {[role |-> "boss"]}

\* a caller whom the routes for staff refuse
Refused == {"emp2"}

onlyUsers == UNCHANGED <<everSubmitted, reports, inflight>>

NextChecksFirst ==
  \/ \E p \in GatePrincipals :
       \/ /\ nextTimesheetId <= MaxTimesheets
          /\ \E body \in GateTimesheetBodies : CreateTimesheet(p, body)
          /\ quiet
       \/ /\ nextExpenseId <= MaxExpenses
          /\ \E body \in ExpenseCreateBodies : CreateExpense(p, body)
          /\ quiet
       \/ \E k \in ReportPeriods : Generate(p, k[1], k[2]) /\ noHistory
       \/ /\ nextEmployeeId <= MaxEmployees
          /\ nextUserId <= MaxUsers
          /\ \E body \in GateEmployeeBodies : CreateEmployee(p, body)
          /\ noRecords
       \/ DeactivateEmployee(p, 2) /\ quiet
  \/ \E p \in Refused :
       \/ \E body \in GateTimesheetUpdates : UpdateTimesheet(p, 1, body) /\ quiet
       \/ DeleteTimesheet(p, 1) /\ quiet
       \/ \E body \in GateExpenseUpdates : UpdateExpense(p, 1, body) /\ quiet
       \/ SubmitExpense(p, 1) /\ quiet
       \/ ApproveExpense(p, 1) /\ quiet
       \/ \E body \in RejectBodies : RejectExpense(p, 1, body) /\ quiet
       \/ DeleteExpense(p, 1) /\ quiet
       \/ Finalize(p, 1) /\ noHistory
       \/ UpdateEmployee(p, 2, [payRate |-> 12]) /\ quiet
       \/ DeleteEmployee(p, 2) /\ quiet
  \/ \E a \in Callers :
       \/ /\ nextUserId <= MaxUsers
          /\ \E body \in GateUserBodies : CreateUser(a, body)
          /\ onlyUsers
       \/ \E body \in GateUserUpdates : UpdateUser(a, 1, body) /\ onlyUsers
       \/ DeleteUser(a, 1) /\ onlyUsers
       \/ ToggleUserStatus(a, 1) /\ onlyUsers

SpecChecksFirst == Init /\ [][NextChecksFirst]_vars

\* ------------------------------------------------------------ claims

sameKey(a, b) == a.employeeId = b.employeeId /\ a.date = b.date

\* C1: After any sequence of timesheet create, update and delete requests the
\* store holds at most one timesheet per (employeeId, date), and a create
\* request for a pair that already has a timesheet is rejected and leaves the
\* store unchanged.
C1_OneEntryPerEmployeeAndDate ==
  [][/\ \A i, j \in DOMAIN timesheets' :
          i # j => ~sameKey(timesheets'[i], timesheets'[j])
     /\ \A body \in CreateBodies :
          ( /\ resp'.op = "createTimesheet"
            /\ CreateTimesheet(resp'.by, body)
            /\ \E i \in DOMAIN timesheets : sameKey(timesheets[i], body) ) =>
            (resp'.code # 201 /\ timesheets' = timesheets)
    ]_vars

\* C2: Every approved expense was submitted at an earlier point, and an
\* approve request on a draft expense fails and changes nothing.
C2_ApprovedWasSubmitted ==
  [][/\ \A i \in DOMAIN expenses' :
          expenses'[i].status = "approved" => i \in everSubmitted'
     /\ ( /\ resp'.op = "approveExpense"
          /\ resp'.id \in DOMAIN expenses
          /\ expenses[resp'.id].status = "draft" ) =>
          (resp'.code # 200 /\ expenses' = expenses)
    ]_vars

\* C3: Every get, update, submit or delete request of an employee principal
\* on a timesheet or expense of another employee is answered with 403, returns
\* no record data and leaves the record unchanged; a list request of an
\* employee returns only records of the employee's own employeeId.
C3_EmployeeCannotTouchOthers ==
  [][LET r == resp'
         own == linkedEmployeeId[r.by]
     IN  role[r.by] = "employee" =>
           /\ ( /\ r.op \in {"getTimesheet", "updateTimesheet", "deleteTimesheet"}
                /\ r.id \in DOMAIN timesheets
                /\ timesheets[r.id].employeeId # own ) =>
                (r.code = 403 /\ r.data = {} /\ timesheets' = timesheets)
           /\ ( /\ r.op \in {"getExpense", "updateExpense", "submitExpense",
                             "deleteExpense"}
                /\ r.id \in DOMAIN expenses
                /\ expenses[r.id].employeeId # own ) =>
                (r.code = 403 /\ r.data = {} /\ expenses' = expenses)
           /\ r.op \in {"listTimesheets", "listExpenses"} =>
                \A d \in r.data : d.employeeId = own
    ]_vars

\* C4: In every reachable state each stored timesheet's totalHoursWorked and
\* otHours equal calculateHours of its stored startTime, endTime and breakTime.
C4_DerivedHoursFollowInputs ==
  \A i \in DOMAIN timesheets :
    LET t == timesheets[i]
        hours == calculateHours(t.startTime, t.endTime, t.breakTime)
    IN  /\ t.totalHoursWorked = hours.totalHoursWorked
        /\ t.otHours = hours.otHours

\* C5: The submit, approve and reject endpoints change an expense only along
\* draft -> submitted (submit), submitted/rejected -> approved (approve,
\* stamping approvedBy and approvedAt) and submitted/approved -> rejected
\* (reject, storing the given rejectionReason, empty by default); in any other
\* status the request fails and the expenses are unchanged.  An admin or a
\* manager succeeds in each allowed status.
C5_ExpenseTransitions ==
  [][LET r == resp'
     IN  ( /\ r.op \in {"submitExpense", "approveExpense", "rejectExpense"}
           /\ r.id \in DOMAIN expenses ) =>
           LET e == expenses[r.id]
               staff == role[r.by] \in {"admin", "manager"}
               becomes(doc) == expenses' = [expenses EXCEPT ![r.id] = doc]
           IN  /\ r.code # 200 => expenses' = expenses
               /\ (r.op = "submitExpense" /\ r.code = 200) =>
                    /\ e.status = "draft"
                    /\ becomes([e EXCEPT !.status = "submitted"])
               /\ (r.op = "submitExpense" /\ staff /\ e.status = "draft") =>
                    r.code = 200
               /\ (r.op = "approveExpense" /\ r.code = 200) =>
                    /\ e.status \in {"submitted", "rejected"}
                    /\ becomes([e EXCEPT !.status = "approved",
                                         !.approvedBy = r.by,
                                         !.approvedAt = "stamped"])
               /\ ( /\ r.op = "approveExpense" /\ staff
                    /\ e.status \in {"submitted", "rejected"} ) => r.code = 200
               /\ \A body \in RejectBodies :
                    ( /\ r.op = "rejectExpense" /\ r.code = 200
                      /\ RejectExpense(r.by, r.id, body) ) =>
                      /\ e.status \in {"submitted", "approved"}
                      /\ becomes([e EXCEPT
                           !.status = "rejected",
                           !.rejectionReason =
                              IF "rejectionReason" \in DOMAIN body
                                THEN body.rejectionReason ELSE ""])
               /\ ( /\ r.op = "rejectExpense" /\ staff
                    /\ e.status \in {"submitted", "approved"} ) => r.code = 200
    ]_vars

\* a rejected expense (default reason) approved again by the principal replying
C5_Witness ==
  /\ resp.op = "approveExpense"
  /\ resp.code = 200
  /\ resp.id \in DOMAIN expenses
  /\ expenses[resp.id].status = "approved"
  /\ expenses[resp.id].approvedBy = "manager"
  /\ expenses[resp.id].approvedAt = "stamped"
  /\ expenses[resp.id].rejectionReason = ""

\* C6: A timesheet becomes submitted only from draft or rejected and becomes
\* approved only from submitted or rejected; no request moves a timesheet
\* from draft directly to approved.
C6_TimesheetLifecycle ==
  [][\A i \in DOMAIN timesheets \cap DOMAIN timesheets' :
       LET old == timesheets[i].status
           new == timesheets'[i].status
       IN  old # new =>
             /\ new = "submitted" => old \in {"draft", "rejected"}
             /\ new = "approved" => old \in {"submitted", "rejected"}
    ]_vars

\* C7: No request of an employee principal moves a timesheet or an expense
\* into status approved or rejected.
C7_OnlyStaffApproveOrReject ==
  [][role[resp'.by] = "employee" =>
       /\ \A i \in DOMAIN timesheets' :
            timesheets'[i].status \in {"approved", "rejected"} =>
              /\ i \in DOMAIN timesheets
              /\ timesheets[i].status = timesheets'[i].status
       /\ \A i \in DOMAIN expenses' :
            expenses'[i].status \in {"approved", "rejected"} =>
              /\ i \in DOMAIN expenses
              /\ expenses[i].status = expenses'[i].status
    ]_vars

\* a well-formed timesheet update body: it passes the request validators and
\* the schema validators
wellFormedTimesheetBody(doc, body) == timesheetSchemaValid(applyBody(doc, body))

\* C8: An update of a timesheet by the owning employee succeeds only while
\* the timesheet is in status draft or rejected; in status submitted or
\* approved it is refused and the timesheet is unchanged.  Well-formed updates
\* by an admin or a manager succeed in every status.
C8_OwnerUpdatesOnlyDraftOrRejected ==
  [][\A body \in StatusBodies \cup KeyBodies :
       ( /\ resp'.op = "updateTimesheet"
         /\ resp'.id \in DOMAIN timesheets
         /\ UpdateTimesheet(resp'.by, resp'.id, body) ) =>
         LET p == resp'.by
             t == timesheets[resp'.id]
             owner == role[p] = "employee" /\ t.employeeId = linkedEmployeeId[p]
         IN  /\ (owner /\ resp'.code = 200) => t.status \in {"draft", "rejected"}
             /\ (owner /\ t.status \in {"submitted", "approved"}) =>
                  (resp'.code # 200 /\ timesheets' = timesheets)
             /\ ( /\ role[p] \in {"admin", "manager"}
                  /\ wellFormedTimesheetBody(t, body) ) => resp'.code = 200
    ]_vars

wellFormedExpenseBody(body) ==
  /\ "amount" \in DOMAIN body => body.amount >= 0
  /\ "status" \in DOMAIN body => body.status \in ExpenseStatuses

C11_OwnerDeletesDraftExpense ==
  [][( /\ resp'.op = "deleteExpense"
       /\ resp'.id \in DOMAIN expenses ) =>
       LET p == resp'.by
           e == expenses[resp'.id]
           owner == role[p] = "employee" /\ e.employeeId = linkedEmployeeId[p]
           removed == expenses' = [i \in DOMAIN expenses \ {resp'.id} |->
                                     expenses[i]]
       IN  /\ (owner /\ e.status = "draft") => (resp'.code = 200 /\ removed)
           /\ (owner /\ e.status # "draft") =>
                (resp'.code = 403 /\ expenses' = expenses)
           /\ role[p] \in {"admin", "manager"} => (resp'.code = 200 /\ removed)
    ]_vars

\* the owner was refused the deletion of the own approved expense
C11_Witness ==
  /\ resp.op = "deleteExpense"
  /\ resp.by = "emp1"
  /\ resp.code = 403
  /\ resp.id \in DOMAIN expenses
  /\ expenses[resp.id].employeeId = linkedEmployeeId[resp.by]
  /\ expenses[resp.id].status = "approved"

\* the summaries stored for one employee and period
summariesOf(sums, e, year, month) ==
  {i \in DOMAIN sums : /\ sums[i].employeeId = e
                        /\ sums[i].year = year
                        /\ sums[i].month = month}

\* the computed part of a summary
totalsOf(doc) ==
  <<doc.totalRegularHours, doc.totalOTHours, doc.totalVacationHours,
    doc.totalHolidayHours, doc.breakdown, doc.totalPayableAmount>>

Staff == {p \in Principals : role[p] \in {"admin", "manager"}}

\* C12: Monthly aggregation is idempotent.  In a state reached by a successful
\* generate(year, month), a second generate(year, month) by an admin or a
\* manager succeeds, leaves for every active employee the totals, the
\* breakdown and the payable amount as they are, and there is exactly one
\* summary per (employeeId, year, month) before and after it.
C12_GenerateIdempotent ==
  (resp.op = "generate" /\ resp.code = 200) =>
    LET year == resp.id \div 100
        month == resp.id % 100
    IN  \A p \in Staff :
          ~ ENABLED
            ( /\ Generate(p, year, month)
              /\ noHistory
              /\ ~ ( /\ resp'.code = 200
                     /\ \A e \in activeEmployees :
                          LET before == summariesOf(summaries, e, year, month)
                              after == summariesOf(summaries', e, year, month)
                          IN  /\ Cardinality(before) = 1
                              /\ after = before
                              /\ \A i \in after : totalsOf(summaries'[i]) =
                                                    totalsOf(summaries[i]) ) )

\* generate ran again over a summary that was generated and finalized before,
\* with hours to pay
C12_Witness ==
  /\ resp.op = "generate"
  /\ resp.code = 200
  /\ \E i \in DOMAIN summaries :
       /\ summaries[i].status = "finalized"
       /\ summaries[i].year * 100 + summaries[i].month = resp.id
       /\ summaries[i].employeeId \in activeEmployees
       /\ summaries[i].totalVacationHours > 0
       /\ summaries[i].totalHolidayHours > 0

\* the days of January 2020
C13_January == 1..31

\* C13: After generate(2020, 1) each active employee has a summary, and in it
\* totalRegularHours is the sum over the employee's timesheets dated in
\* January 2020 of max(0, totalHoursWorked - otHours), totalOTHours the sum of
\* otHours, totalVacationHours and totalHolidayHours the sums of the full
\* totalHoursWorked of the entries flagged isVacationWork and isHolidayWork,
\* and totalPayableAmount = totalRegularHours * payRate + totalOTHours * otRate
\* + totalVacationHours * vacationPayRate + totalHolidayHours * payRate, the
\* sum of the four breakdown fields.
C13_SummaryTotals ==
  (resp.op = "generate" /\ resp.code = 200 /\ resp.id = 202001) =>
    \A e \in activeEmployees :
      LET mine == {i \in DOMAIN timesheets :
                     /\ timesheets[i].employeeId = e
                     /\ timesheets[i].date \in C13_January}
          regular == [i \in mine |->
                        IF timesheets[i].totalHoursWorked > timesheets[i].otHours
                          THEN timesheets[i].totalHoursWorked - timesheets[i].otHours
                          ELSE 0]
          ot == [i \in mine |-> timesheets[i].otHours]
          vacation == [i \in mine |-> IF timesheets[i].isVacationWork
                                        THEN timesheets[i].totalHoursWorked ELSE 0]
          holiday == [i \in mine |-> IF timesheets[i].isHolidayWork
                                       THEN timesheets[i].totalHoursWorked ELSE 0]
          docs == summariesOf(summaries, e, 2020, 1)
      IN  /\ docs # {}
          /\ \A i \in docs :
               LET d == summaries[i]
                   b == d.breakdown
               IN  /\ d.totalRegularHours = sumOver(regular, mine)
                   /\ d.totalOTHours = sumOver(ot, mine)
                   /\ d.totalVacationHours = sumOver(vacation, mine)
                   /\ d.totalHolidayHours = sumOver(holiday, mine)
                   /\ d.totalPayableAmount =
                        d.totalRegularHours * employees[e].payRate
                          + d.totalOTHours * employees[e].otRate
                          + d.totalVacationHours * employees[e].vacationPayRate
                          + d.totalHolidayHours * employees[e].payRate
                   /\ d.totalPayableAmount =
                        b.regularPay + b.otPay + b.vacationPay + b.holidayPay

\* generate summed two January entries of employee 1, one flagged vacation and
\* one flagged holiday, the first with a stored total below its overtime
C13_Witness ==
  /\ resp.op = "generate"
  /\ resp.code = 200
  /\ \E i, j \in DOMAIN timesheets :
       /\ i # j
       /\ timesheets[i].employeeId = 1 /\ timesheets[j].employeeId = 1
       /\ timesheets[i].date = 30 /\ timesheets[j].date = 31
       /\ timesheets[i].totalHoursWorked < timesheets[i].otHours
  /\ \E k \in DOMAIN summaries :
       /\ summaries[k].employeeId = 1
       /\ summaries[k].totalOTHours = 300
       /\ summaries[k].totalRegularHours = 480

\* C14: Finalization is one-way.  A finalize request by an admin or a manager
\* on a draft summary succeeds, sets status to finalized and sets finalizedAt;
\* on an already finalized summary it fails and changes nothing; and a
\* finalized summary stays stored and finalized over every generate and
\* finalize request.
C14_FinalizeOneWay ==
  [][/\ \A i \in DOMAIN summaries :
          summaries[i].status = "finalized" =>
            (i \in DOMAIN summaries' /\ summaries'[i].status = "finalized")
     /\ ( /\ resp'.op = "finalize"
          /\ resp'.by \in Staff
          /\ resp'.id \in DOMAIN summaries ) =>
          IF summaries[resp'.id].status = "draft"
            THEN /\ resp'.code = 200
                 /\ summaries' = [summaries EXCEPT
                                    ![resp'.id].status = "finalized",
                                    ![resp'.id].finalizedAt = "stamped"]
            ELSE /\ resp'.code = 400
                 /\ summaries' = summaries
    ]_vars

\* a second finalize request on a finalized summary was refused
C14_Witness ==
  /\ resp.op = "finalize"
  /\ resp.code = 400
  /\ resp.id \in DOMAIN summaries
  /\ summaries[resp.id].status = "finalized"
  /\ summaries[resp.id].finalizedAt = "stamped"

\* C15: When two timesheet create requests for the same (employeeId, date)
\* run concurrently, in every interleaving of their existence check and their
\* save at most one entry for that pair is stored (one of the two fails).
C15_ConcurrentCreatesKeepOneEntry ==
  \A i \in DOMAIN timesheets :
    Cardinality({j \in DOMAIN timesheets :
                   /\ timesheets[j].employeeId = timesheets[i].employeeId
                   /\ timesheets[j].date = timesheets[i].date}) = 1

\* C16: Under any interleaving of concurrent generate requests for the same
\* (year, month), the store never holds more than one MonthlySummary per
\* (employeeId, year, month).
C16_OneSummaryPerKey ==
  \A i \in DOMAIN summaries :
    Cardinality(summariesOf(summaries, summaries[i].employeeId,
                            summaries[i].year, summaries[i].month)) = 1

\* of two generate requests that both found no summary, the later insert was
\* refused by the unique index
C16_Witness ==
  /\ resp.op = "generate"
  /\ resp.code = 500
  /\ summariesOf(summaries, 1, 2020, 1) # {}

\* C17: For every well-formed startTime and endTime and every breakTime in
\* 0..480 minutes, calculateHours yields workMinutes = max(0, d - breakTime)
\* where d is end - start in minutes, plus 1440 when end is before start;
\* hoursWorked = workMinutes / 60 lies in [0, 24] and is never negative even
\* when the break exceeds the shift; and otHours = max(0, hoursWorked - 8).
\* Hours are in minutes here: 24 hours are 1440 and 8 hours are 480.
C17_CalculateHours ==
  resp.op = "calculateHours" =>
    \A row \in resp.data :
      LET start == row.startTime.h * 60 + row.startTime.m
          end == row.endTime.h * 60 + row.endTime.m
          d == IF end < start THEN end - start + 1440 ELSE end - start
          workMinutes == IF d - row.breakTime > 0 THEN d - row.breakTime ELSE 0
      IN  /\ row.totalHoursWorked = workMinutes
          /\ row.totalHoursWorked >= 0 /\ row.totalHoursWorked <= 1440
          /\ row.otHours = IF workMinutes > 480 THEN workMinutes - 480 ELSE 0

\* an overnight shift of ninety minutes with a break of eight hours
C17_Witness ==
  /\ resp.op = "calculateHours"
  /\ \E row \in resp.data :
       /\ row.startTime = [h |-> 23, m |-> 0]
       /\ row.endTime = [h |-> 0, m |-> 30]
       /\ row.breakTime = 480
       /\ row.totalHoursWorked = 0

\* C18: In every reachable state of the store an export request for
\* (year, month) by an admin or a manager succeeds and produces exactly one
\* text row per stored summary of that (year, month), with the columns in the
\* order employeeId, name, position, regular hours, OT hours, vacation hours,
\* holiday hours, totalPayable.
C18_ExportOneRowPerSummary ==
  (resp.op = "export" /\ resp.by \in Staff) =>
    LET wanted == {i \in DOMAIN summaries : /\ summaries[i].year = 2020
                                            /\ summaries[i].month = resp.id}
    IN  /\ resp.code = 200
        /\ Cardinality(resp.data) = Cardinality(wanted)
        /\ \A i \in wanted :
             \E line \in resp.data :
               LET row == line[2]
                   d == summaries[i]
               IN  /\ line[1] = i
                   /\ Len(row) = 8
                   /\ d.employeeId \in DOMAIN employees
                   /\ row[1] = employees[d.employeeId].employeeId
                   /\ row[2] = employees[d.employeeId].name
                   /\ row[3] = employees[d.employeeId].position
                   /\ row[4] = d.totalRegularHours
                   /\ row[5] = d.totalOTHours
                   /\ row[6] = d.totalVacationHours
                   /\ row[7] = d.totalHolidayHours
                   /\ row[8] = d.totalPayableAmount

\* a collection without the document id
without(docs, id) == [i \in DOMAIN docs \ {id} |-> docs[i]]

\* C19: The response to an employee principal's read of a record of another
\* employee does not depend on whether the record exists: over the store as it
\* is and over the store without that timesheet, expense or summary, the same
\* request receives the same authorization error, 403.
C19_DenialHidesExistence ==
  \A p \in Principals :
    role[p] = "employee" =>
      /\ \A id \in DOMAIN timesheets :
           timesheets[id].employeeId # linkedEmployeeId[p] =>
             /\ getTimesheetCode(timesheets, employees, p, id) = 403
             /\ getTimesheetCode(without(timesheets, id), employees, p, id) = 403
      /\ \A id \in DOMAIN expenses :
           expenses[id].employeeId # linkedEmployeeId[p] =>
             /\ getExpenseCode(expenses, employees, p, id) = 403
             /\ getExpenseCode(without(expenses, id), employees, p, id) = 403
      /\ \A id \in DOMAIN summaries :
           summaries[id].employeeId # linkedEmployeeId[p] =>
             LET d == summaries[id]
             IN  /\ getMonthlySummaryCode(summaries, p, d.employeeId,
                                          d.year, d.month) = 403
                 /\ getMonthlySummaryCode(without(summaries, id), p,
                                          d.employeeId, d.year, d.month) = 403

\* the requests that change the employee collection other than by status
EmployeeWrites ==
  {"createEmployee", "createEmployeeOnly", "updateEmployee", "deleteEmployee"}

EmployeeManagement ==
  EmployeeWrites \cup {"deactivateEmployee", "activateEmployee",
                       "getEmployee", "listEmployees"}

\* C20: Every create, update or permanent-delete request on an Employee by a
\* manager is answered 403 and leaves the employee collection unchanged, and
\* every employee-management request by an employee principal is refused
\* with the collection unchanged.
C20_ManagerOnlyReadsAndToggles ==
  [][/\ (role[resp'.by] = "manager" /\ resp'.op \in EmployeeWrites)
         => (resp'.code = 403 /\ employees' = employees)
     /\ (role[resp'.by] = "employee" /\ resp'.op \in EmployeeManagement)
         => (resp'.code = 403 /\ employees' = employees)]_vars

\* the totals of employee e over the timesheets of January 2020, and the pay
expectedJanuary(e) ==
  LET mine == {i \in DOMAIN timesheets :
                 /\ timesheets[i].employeeId = e
                 /\ timesheets[i].date \in C13_January}
      regular == sumOver([i \in mine |->
                   IF timesheets[i].totalHoursWorked > timesheets[i].otHours
                     THEN timesheets[i].totalHoursWorked - timesheets[i].otHours
                     ELSE 0], mine)
      ot == sumOver([i \in mine |-> timesheets[i].otHours], mine)
      vacation == sumOver([i \in mine |-> IF timesheets[i].isVacationWork
                             THEN timesheets[i].totalHoursWorked ELSE 0], mine)
      holiday == sumOver([i \in mine |-> IF timesheets[i].isHolidayWork
                            THEN timesheets[i].totalHoursWorked ELSE 0], mine)
  IN  <<regular, ot, vacation, holiday,
        regular * employees[e].payRate + ot * employees[e].otRate
          + vacation * employees[e].vacationPayRate
          + holiday * employees[e].payRate>>

\* the same five numbers as a summary holds them
heldTotals(doc) ==
  <<doc.totalRegularHours, doc.totalOTHours, doc.totalVacationHours,
    doc.totalHolidayHours, doc.totalPayableAmount>>

\* the active employees that precede the k-th in the order of the collection
processedBefore(k) ==
  {e \in activeEmployees : Cardinality({x \in activeEmployees : x < e}) + 1 < k}

\* C21: Batch generation is not all-or-nothing.  When a storage operation
\* fails while generate(2020, 1) processes the k-th active employee, the
\* request is answered 500, each employee processed before the k-th has
\* exactly one summary and it holds the totals of the timesheets as they are
\* now, every other summary is as it was and no summary was added for another
\* employee; and in a state left by such a failure a generate(2020, 1) by an
\* admin or a manager succeeds and leaves every active employee with the
\* totals of the timesheets.
C21_BatchKeepsProcessedPart ==
  /\ \A p \in Staff, k \in EmployeeIds :
       ~ ENABLED
         ( /\ GenerateFault(p, 2020, 1, k)
           /\ noHistory
           /\ ~ ( /\ resp'.code = 500
                  /\ \A e \in processedBefore(k) :
                       LET after == summariesOf(summaries', e, 2020, 1)
                       IN  /\ Cardinality(after) = 1
                           /\ \A i \in after :
                                heldTotals(summaries'[i]) = expectedJanuary(e)
                  /\ \A i \in DOMAIN summaries :
                       ~ ( /\ summaries[i].employeeId \in processedBefore(k)
                           /\ summaries[i].year = 2020
                           /\ summaries[i].month = 1 )
                         => (i \in DOMAIN summaries' /\ summaries'[i] = summaries[i])
                  /\ \A i \in DOMAIN summaries' \ DOMAIN summaries :
                       summaries'[i].employeeId \in processedBefore(k) ) )
  /\ (resp.op = "generate" /\ resp.code = 500) =>
       \A p \in Staff :
         ~ ENABLED
           ( /\ Generate(p, 2020, 1)
             /\ noHistory
             /\ ~ ( /\ resp'.code = 200
                    /\ \A e \in activeEmployees :
                         LET after == summariesOf(summaries', e, 2020, 1)
                         IN  /\ after # {}
                             /\ \A i \in after :
                                  heldTotals(summaries'[i]) = expectedJanuary(e) ) )

\* a generate failed at the second of two active employees: the summary of
\* employee 1 holds hours of a timesheet, the summary of employee 2 is behind
\* the timesheets
C21_Witness ==
  /\ resp.op = "generate"
  /\ resp.code = 500
  /\ activeEmployees = {1, 2}
  /\ \E i, j \in DOMAIN summaries :
       /\ summaries[i].employeeId = 1
       /\ heldTotals(summaries[i]) = expectedJanuary(1)
       /\ summaries[i].totalVacationHours > 0
       /\ summaries[j].employeeId = 2
       /\ heldTotals(summaries[j]) # expectedJanuary(2)

\* C23: Accounts with role employee are one-to-one with Employee records:
\* every account with role employee has a linkedEmployeeId, and no two
\* accounts with role employee have the same linkedEmployeeId.
C23_EmployeeAccountsOneToOne ==
  /\ \A u \in DOMAIN users :
       users[u].role = "employee" => users[u].linkedEmployeeId # 0
  /\ \A u, v \in DOMAIN users :
       (/\ u # v
        /\ users[u].role = "employee"
        /\ users[v].role = "employee")
         => users[u].linkedEmployeeId # users[v].linkedEmployeeId

\* C27: At least one account with role admin exists.
C27_AnAdminRemains ==
  \E u \in DOMAIN users : users[u].role = "admin"

\* C26: The answer of POST /password-reset/request does not show whether an
\* account with the email exists: over the accounts as they are and over the
\* accounts without the one that has the email, the request gets the same
\* status and the same body.
C26_RequestHidesAccounts ==
  \A u \in DOMAIN users :
    requestResetReply(users, nextTokenId, users[u].email) =
      requestResetReply(without(users, u), nextTokenId, users[u].email)

\* C28: A reset token changes a password at most once: a reset request
\* neither saves a password nor succeeds with a token that an earlier
\* successful reset has marked used.
C28_TokenResetsOnce ==
  [][\A r \in DOMAIN inflight :
       (/\ inflight[r].op = "reset"
        /\ resetTokens[inflight[r].token].used)
         => /\ \A u \in DOMAIN users \cap DOMAIN users' :
                 users'[u].password = users[u].password
            /\ ~(r \notin DOMAIN inflight' /\ resp'.by = r /\ resp'.code = 200)]_vars

\* C24: No request to the expense endpoints leaves an expense in status
\* reimbursed.
C24_NeverReimbursed ==
  \A id \in DOMAIN expenses : expenses[id].status # "reimbursed"

\* C29: After every successful create or update of a timesheet or an expense
\* by an employee principal, the record's employeeId is the principal's
\* linkedEmployeeId.
C29_EmployeeWritesOwnRecords ==
  [][(/\ role[resp'.by] = "employee"
      /\ resp'.code \in {200, 201})
       => /\ resp'.op \in {"createTimesheet", "updateTimesheet"}
             => timesheets'[resp'.id].employeeId = linkedEmployeeId[resp'.by]
          /\ resp'.op \in {"createExpense", "updateExpense"}
             => expenses'[resp'.id].employeeId = linkedEmployeeId[resp'.by]]_vars

\* C25: A generate(year, month) run creates or modifies summaries only for
\* employees whose status is active: every summary of an employee that is
\* inactive, terminated or gone, and every summary of another (year, month),
\* is left as it was, and no summary is added for such an employee or period.
C25_GenerateTouchesActiveOnly ==
  [][resp'.op = "generate" =>
       LET active(e) == e \in DOMAIN employees /\ employees[e].status = "active"
           inRun(d) == /\ active(d.employeeId)
                       /\ d.year * 100 + d.month = resp'.id
       IN  /\ \A i \in DOMAIN summaries :
                ~inRun(summaries[i]) =>
                  (i \in DOMAIN summaries' /\ summaries'[i] = summaries[i])
           /\ \A i \in DOMAIN summaries' \ DOMAIN summaries :
                inRun(summaries'[i])]_vars

\* a generate for January succeeded while employee 2 was not active and held
\* a January summary that is behind the timesheets, and a February summary
\* exists
C25_Witness ==
  /\ resp.op = "generate"
  /\ resp.code = 200
  /\ resp.id = 202001
  /\ employees[2].status # "active"
  /\ \E i, j \in DOMAIN summaries :
       /\ summaries[i].employeeId = 2
       /\ summaries[i].month = 1
       /\ heldTotals(summaries[i]) # expectedJanuary(2)
       /\ summaries[j].month = 2

\* C30: Whenever POST /employees answers with a 4xx error, the request has
\* created no Employee record and no User account.
C30_FailedCreateLeavesNothing ==
  [][(/\ resp'.op = "createEmployee"
      /\ resp'.code >= 400
      /\ resp'.code < 500)
       => (employees' = employees /\ users' = users)]_vars

\* every stored record: employees, timesheets, expenses, summaries, accounts
\* and reset tokens
records == <<employees, timesheets, expenses, summaries, users, resetTokens>>

\* C22: Validation and authorization checks come before any mutation.  Every
\* timesheet, expense, report, employee and user-management request that is
\* answered 401 or 403, and every one that is answered 400, leaves every
\* stored record unchanged; the one 400 left out is the answer of employee
\* creation to an email that an account already has, which reports a
\* conflict found after the save and no field error.
C22_ChecksBeforeMutation ==
  [][(\/ resp'.code \in {401, 403}
      \/ /\ resp'.code = 400
         /\ ~(resp'.op = "createEmployee" /\ resp'.id # 0))
       => records' = records]_vars

\* a manager was refused the deletion of an account, which is still there,
\* in a store that holds a timesheet, an expense, a summary and a new account
C22_Witness ==
  /\ resp.op = "deleteUser"
  /\ resp.code = 403
  /\ resp.id \in DOMAIN users
  /\ DOMAIN timesheets # {}
  /\ DOMAIN expenses # {}
  /\ DOMAIN summaries # {}
  /\ Cardinality(DOMAIN users) > Len(PrincipalOrder)

====
